---- MODULE Spec2Model ----
(***************************************************************************)
(* Envelope-budget and rollover engine of the SpendSmart backend           *)
(* (src/lambda/budgets.js), over a single-table item store.                *)
(*                                                                         *)
(* Strings the code concatenates and matches with begins_with are          *)
(* sequences: a key is the sequence of its pieces, a month string is the   *)
(* sequence of its seven characters, a template name is the sequence of    *)
(* its pieces ("Default Copy" is <<"Default", " Copy">>), so that          *)
(* begins_with is the prefix test on sequences.  The store is a set of     *)
(* items; a put replaces the item with the same (PK, SK).  Reads are       *)
(* complete and current (no pagination, no stale read).                    *)
(***************************************************************************)
EXTENDS Integers, Sequences, FiniteSets

VARIABLES tpl, env, txn, clock, last, inflight, rec, alert

vars == <<tpl, env, txn, clock, last, inflight, rec, alert>>

-----------------------------------------------------------------------------
(* Bounds of the model *)

MaxClock == 3
MaxTxn == 2

-----------------------------------------------------------------------------
(* Strings *)

BeginsWith(s, p) ==
  /\ Len(p) <= Len(s)
  /\ SubSeq(s, 1, Len(p)) = p

Digits == <<"0", "1", "2", "3", "4", "5", "6", "7", "8", "9">>

DigitVal(ch) == (CHOOSE i \in 1..10 : Digits[i] = ch) - 1

RECURSIVE Number(_)
Number(s) ==
  IF s = <<>> THEN 0
  ELSE Number(SubSeq(s, 1, Len(s) - 1)) * 10 + DigitVal(s[Len(s)])

\* String(n) of a non-negative integer: its decimal digits, unpadded
RECURSIVE NumToString(_)
NumToString(n) ==
  IF n < 10 THEN <<Digits[n + 1]>>
  ELSE NumToString(n \div 10) \o <<Digits[(n % 10) + 1]>>

RECURSIVE padStart(_, _, _)
padStart(s, n, ch) == IF Len(s) >= n THEN s ELSE padStart(<<ch>> \o s, n, ch)

\* s.split('-'): the pieces of s between the dashes
RECURSIVE Split(_)
Split(s) ==
  IF \A i \in 1..Len(s) : s[i] # "-" THEN <<s>>
  ELSE LET k == CHOOSE i \in 1..Len(s) :
                  /\ s[i] = "-"
                  /\ \A j \in 1..(i - 1) : s[j] # "-"
       IN <<SubSeq(s, 1, k - 1)>> \o Split(SubSeq(s, k + 1, Len(s)))

\* new Date(year, monthIndex, 1).getFullYear(): years 0..99 mean 1900..1999
DateFullYear(year) == IF year >= 0 /\ year <= 99 THEN 1900 + year ELSE year

getPreviousMonth(monthStr) ==
  LET parts == Split(monthStr)
      year == Number(parts[1])
      month == Number(parts[2])
      \* date = new Date(year, month - 1, 1); date.setMonth(date.getMonth() - 1)
      total == DateFullYear(year) * 12 + (month - 1) - 1
      prevYear == total \div 12
      prevMonth == NumToString((total % 12) + 1)
  IN NumToString(prevYear) \o <<"-">> \o padStart(prevMonth, 2, "0")

-----------------------------------------------------------------------------
(* Keys *)

TemplatePK(userId, templateName) == <<"USER#", userId, "#TEMPLATE#">> \o templateName

TemplateSK(category) == <<"CATEGORY#", category>>

AllTemplatesPrefix(userId) == <<"USER#", userId, "#TEMPLATE#">>

EnvelopePK(userId, template) == <<"USER#", userId, "#ENVELOPE#">> \o template

EnvelopeSK(month, category) == month \o <<"#", category>>

TransactionPK(userId) == <<"USER#", userId, "#TRANSACTION">>

MonthGSI1PK(date) == <<"MONTH#">> \o date

\* a put: the item replaces the stored item of the same key
Put(items, item) == {r \in items : ~(r.PK = item.PK /\ r.SK = item.SK)} \cup {item}

RECURSIVE BatchWrite(_, _)
BatchWrite(items, batch) ==
  IF batch = {} THEN items
  ELSE LET item == CHOOSE x \in batch : TRUE
       IN BatchWrite(Put(items, item), batch \ {item})

DeleteKeys(items, gone) ==
  {r \in items : ~(\E g \in gone : g.PK = r.PK /\ g.SK = r.SK)}

-----------------------------------------------------------------------------
(* Fixed values of the code *)

DefaultName == <<"Default">>

\* Default template categories to create for new users
getDefaultTemplateCategories ==
  { [category |-> "Food", budget_amount |-> 500, rollover_enabled |-> TRUE],
    [category |-> "Transportation", budget_amount |-> 300, rollover_enabled |-> FALSE],
    [category |-> "Entertainment", budget_amount |-> 200, rollover_enabled |-> TRUE],
    [category |-> "Shopping", budget_amount |-> 400, rollover_enabled |-> FALSE],
    [category |-> "Bills", budget_amount |-> 800, rollover_enabled |-> FALSE],
    [category |-> "Healthcare", budget_amount |-> 150, rollover_enabled |-> TRUE] }

\* an attribute an item does not have
NoMonth == <<>>
NoId == <<>>
NoName == <<>>

-----------------------------------------------------------------------------
(* Items.  Attributes that no operation of the model reads (the GSI keys   *)
(* of template and envelope items, a template item's is_active and         *)
(* created_at) are left out.                                               *)

TemplateItem(userId, templateName, categoryData) ==
  [ PK |-> TemplatePK(userId, templateName),
    SK |-> TemplateSK(categoryData.category),
    template_name |-> templateName,
    category |-> categoryData.category,
    budget_amount |-> categoryData.budget_amount,
    rollover_enabled |-> categoryData.rollover_enabled,
    user_id |-> userId ]

\* the id is built from the scope and Date.now()
EnvelopeId(template, month, category, now) == <<template, month, category, now>>

EnvelopeItemKeyedById(userId, template, month, templateItem, rolloverAmount, now) ==
  [ PK |-> EnvelopePK(userId, template),
    SK |-> EnvelopeSK(month, templateItem.category) \o <<"#", now>>,
    id |-> EnvelopeId(template, month, templateItem.category, now),
    template_name |-> template,
    category |-> templateItem.category,
    budget_amount |-> templateItem.budget_amount,
    month |-> month,
    rollover_enabled |-> templateItem.rollover_enabled,
    rollover_amount |-> rolloverAmount,
    is_active |-> TRUE,
    created_at |-> now,
    user_id |-> userId ]

EnvelopeItem(userId, template, month, templateItem, rolloverAmount, now) ==
  [ PK |-> EnvelopePK(userId, template),
    SK |-> EnvelopeSK(month, templateItem.category),
    id |-> EnvelopeId(template, month, templateItem.category, now),
    template_name |-> template,
    category |-> templateItem.category,
    budget_amount |-> templateItem.budget_amount,
    month |-> month,
    rollover_enabled |-> templateItem.rollover_enabled,
    rollover_amount |-> rolloverAmount,
    is_active |-> TRUE,
    created_at |-> now,
    user_id |-> userId ]

\* the budget object returned to the caller for a stored or constructed item
BudgetView(item) ==
  [ id |-> item.id,
    template_name |-> item.template_name,
    category |-> item.category,
    budget_amount |-> item.budget_amount,
    month |-> item.month,
    rollover_enabled |-> item.rollover_enabled,
    rollover_amount |-> item.rollover_amount,
    is_active |-> item.is_active,
    created_at |-> item.created_at ]

\* a transaction item as POST /transactions and the recurring executor write it
TransactionItem(userId, id, type, category, amount, date, recurringId) ==
  [ PK |-> TransactionPK(userId),
    SK |-> <<"TRANSACTION#", id>>,
    GSI1PK |-> MonthGSI1PK(date),
    id |-> id,
    type |-> type,
    category |-> category,
    amount |-> amount,
    date |-> date,
    recurring_transaction_id |-> recurringId,
    user_id |-> userId ]

\* the transaction item executeRecurringTransaction writes at a date, with
\* the type, category and amount of the recurring transaction
ExecutedTransactionItem(userId, id, recurringId, type, category, amount, date) ==
  [ TransactionItem(userId, id, type, category, amount, date, recurringId)
      EXCEPT !.GSI1PK = MonthGSI1PK(SubSeq(date, 1, 7)) ]

-----------------------------------------------------------------------------
(* Reads *)

RECURSIVE SumAmounts(_)
SumAmounts(items) ==
  IF items = {} THEN 0
  ELSE LET x == CHOOSE y \in items : TRUE
       IN x.amount + SumAmounts(items \ {x})

\* map[key] || 0
Lookup(map, key) == IF key \in DOMAIN map THEN map[key] ELSE 0

\* Scan: begins_with(PK, USER#<u>#ENVELOPE#<template>) AND month = :month
ScanEnvelopes(items, template, month, userId) ==
  {r \in items : BeginsWith(r.PK, EnvelopePK(userId, template)) /\ r.month = month}

\* Query: PK = USER#<u>#TEMPLATE#<template>
QueryTemplate(items, template, userId) ==
  {r \in items : r.PK = TemplatePK(userId, template)}

\* Scan: begins_with(PK, USER#<u>#TEMPLATE#), then the set of template names
TemplateNamesOf(items, userId) ==
  {r.template_name : r \in {x \in items : BeginsWith(x.PK, AllTemplatesPrefix(userId))}}

getActualSpending(items, month, userId) ==
  LET found == {r \in items :
                  /\ BeginsWith(r.PK, TransactionPK(userId))
                  /\ BeginsWith(r.GSI1PK, MonthGSI1PK(month))
                  /\ r.type = "Expense"}
      cats == {r.category : r \in found}
  IN [c \in cats |-> SumAmounts({r \in found : r.category = c})]

\* remaining of one previous-month budget row
RolloverRemaining(budget, previousSpending) ==
  budget.budget_amount - Lookup(previousSpending, budget.category)
    + budget.rollover_amount

\* the rows that put an entry into rolloverAmounts
RolloverSources(existing, previousSpending) ==
  {b \in existing : b.rollover_enabled /\ RolloverRemaining(b, previousSpending) > 0}

\* The maps the forEach over the previous-month rows can build.  The scan's
\* rows are visited in the store's order and a later row of a category
\* overwrites an earlier one, so a category with several source rows takes
\* the value of any one of them.
RolloverMaps(existing, previousSpending) ==
  LET sources == RolloverSources(existing, previousSpending)
      cats == {b.category : b \in sources}
  IN { f \in [cats -> {RolloverRemaining(b, previousSpending) : b \in sources}] :
         \A c \in cats : \E b \in sources :
            b.category = c /\ f[c] = RolloverRemaining(b, previousSpending) }

\* no entry at all
NoRollover == <<>>

calculateRolloverAmounts(envItems, txnItems, template, previousMonth, userId) ==
  LET existing == ScanEnvelopes(envItems, template, previousMonth, userId)
  IN IF existing = {} THEN {NoRollover}
     ELSE RolloverMaps(existing, getActualSpending(txnItems, previousMonth, userId))

-----------------------------------------------------------------------------
(* The envelope budget engine.  Each operator gives the set of outcomes of *)
(* the function on a store (tplS, envS, txnS) at time now: what it         *)
(* returns or throws, the store it leaves and the write commands it sent.  *)

createDefaultTemplate(tplS, templateName, userId) ==
  BatchWrite(tplS, {TemplateItem(userId, templateName, c) :
                      c \in getDefaultTemplateCategories})

\* the entries a template item gives to envelope creation
TemplateEntry(item) ==
  [ category |-> item.category,
    budget_amount |-> item.budget_amount,
    rollover_enabled |-> item.rollover_enabled ]

\* the template lookup of createEnvelopeBudgetsFromTemplate
TemplateLookupShortPreset(tplS, template, userId) ==
  LET items == QueryTemplate(tplS, template, userId)
  IN IF items # {}
     THEN [found |-> TRUE, provision |-> FALSE,
           categories |-> {TemplateEntry(i) : i \in items}]
     ELSE IF template = DefaultName /\ TemplateNamesOf(tplS, userId) = {}
     THEN [found |-> TRUE, provision |-> TRUE,
           categories |-> {c \in getDefaultTemplateCategories : c.category # "Healthcare"}]
     ELSE [found |-> FALSE, provision |-> FALSE, categories |-> {}]

TemplateLookup(tplS, template, userId) ==
  LET items == QueryTemplate(tplS, template, userId)
  IN IF items # {}
     THEN [found |-> TRUE, provision |-> FALSE,
           categories |-> {TemplateEntry(i) : i \in items}]
     ELSE IF template = DefaultName /\ TemplateNamesOf(tplS, userId) = {}
     THEN [found |-> TRUE, provision |-> TRUE,
           categories |-> getDefaultTemplateCategories]
     ELSE [found |-> FALSE, provision |-> FALSE, categories |-> {}]

\* the envelope items built from the template entries and a rollover map
BuildEnvelopes(userId, template, month, categories, rolloverAmounts, now) ==
  {EnvelopeItem(userId, template, month, t, Lookup(rolloverAmounts, t.category), now) :
     t \in categories}

createEnvelopeBudgetsFromTemplate(tplS, envS, txnS, now, template, month, userId) ==
  LET source == TemplateLookup(tplS, template, userId)
      previousMonth == getPreviousMonth(month)
  IN IF ~source.found
     THEN {[ok |-> FALSE, error |-> "TemplateNotFound", budgets |-> {},
            tpl |-> tplS, env |-> envS, writes |-> 0, created |-> FALSE]}
     ELSE {[ok |-> TRUE, error |-> "",
            budgets |-> {BudgetView(i) :
                           i \in BuildEnvelopes(userId, template, month,
                                                source.categories, r, now)},
            tpl |-> IF source.provision
                    THEN createDefaultTemplate(tplS, DefaultName, userId)
                    ELSE tplS,
            env |-> BatchWrite(envS, BuildEnvelopes(userId, template, month,
                                                    source.categories, r, now)),
            writes |-> IF source.provision THEN 2 ELSE 1,
            created |-> TRUE] :
             r \in calculateRolloverAmounts(envS, txnS, template, previousMonth, userId)}

getOrCreateAlwaysCreate(tplS, envS, txnS, now, template, month, userId) ==
  createEnvelopeBudgetsFromTemplate(tplS, envS, txnS, now, template, month, userId)

getOrCreateEnvelopeBudgets(tplS, envS, txnS, now, template, month, userId) ==
  LET existing == ScanEnvelopes(envS, template, month, userId)
  IN IF existing # {}
     THEN {[ok |-> TRUE, error |-> "", budgets |-> {BudgetView(i) : i \in existing},
            tpl |-> tplS, env |-> envS, writes |-> 0, created |-> FALSE]}
     ELSE createEnvelopeBudgetsFromTemplate(tplS, envS, txnS, now, template, month, userId)

-----------------------------------------------------------------------------
(* The budget analysis engine.  Amounts are integers that count            *)
(* thousandths of the currency unit, so that an amount can have a third    *)
(* decimal and Math.round(x * 100) / 100 is the rounding to a multiple of  *)
(* ten.  Everything but that rounding is the same at every scale, and the  *)
(* figures of the code stand as they are written (the Food preset is 500). *)
(* Percentages are kept in hundredths (78.57 is 7857).                     *)

\* Math.round(x * 100) / 100 of a sum of amounts: the nearest multiple of
\* ten thousandths, a half rounded towards plus infinity
RoundedCurrency(x) == ((x + 5) \div 10) * 10

\* the ratio cut off after two decimals
RoundedDown(n, d) == (n * 100) \div d

\* Math.round(n / d * 100) for d > 0: the nearest integer, halves up
RoundedHundredths(n, d) == (2 * n * 100 + d) \div (2 * d)

\* Math.round(ratio * 100 * 100) / 100, in hundredths
Percentage(actual, total) ==
  IF total > 0 THEN RoundedHundredths(actual * 100, total) ELSE 0

RECURSIVE SumOver(_, _)
SumOver(items, field) ==
  IF items = {} THEN 0
  ELSE LET x == CHOOSE y \in items : TRUE
       IN x[field] + SumOver(items \ {x}, field)

BudgetResult(budget, actualSpending) ==
  LET actual == Lookup(actualSpending, budget.category)
      totalBudgetAmount == budget.budget_amount + budget.rollover_amount
  IN [ source |-> budget.id,
       category |-> budget.category,
       budgeted |-> totalBudgetAmount,
       actual |-> actual,
       remaining |-> totalBudgetAmount - actual,
       percentage |-> Percentage(actual, totalBudgetAmount),
       rollover_enabled |-> budget.rollover_enabled,
       rollover_amount |-> budget.rollover_amount,
       has_budget |-> TRUE,
       unbudgeted_spending |-> FALSE ]

\* the entry of an unbudgeted category with the spending as its remaining
UnbudgetedResultUnsigned(category, actualSpending) ==
  [ source |-> NoId,
    category |-> category,
    budgeted |-> 0,
    actual |-> actualSpending[category],
    remaining |-> actualSpending[category],
    percentage |-> 0,
    rollover_enabled |-> FALSE,
    rollover_amount |-> 0,
    has_budget |-> FALSE,
    unbudgeted_spending |-> TRUE ]

UnbudgetedResult(category, actualSpending) ==
  [ source |-> NoId,
    category |-> category,
    budgeted |-> 0,
    actual |-> actualSpending[category],
    remaining |-> 0 - actualSpending[category],
    percentage |-> 0,
    rollover_enabled |-> FALSE,
    rollover_amount |-> 0,
    has_budget |-> FALSE,
    unbudgeted_spending |-> TRUE ]

\* the analysis with the over-budget count taken over every entry
calculateBudgetAnalysisCountAll(budgets, actualSpending) ==
  LET budgeted == {BudgetResult(b, actualSpending) : b \in budgets}
      budgetedCategories == {b.category : b \in budgets}
      unbudgeted == {UnbudgetedResult(c, actualSpending) :
                       c \in (DOMAIN actualSpending) \ budgetedCategories}
      totalBudgeted == SumOver(budgeted, "budgeted")
      totalActual == SumOver(budgeted, "actual") + SumOver(unbudgeted, "actual")
  IN [ categoryAnalysis |-> budgeted \cup unbudgeted,
       summary |->
         [ totalBudgeted |-> RoundedCurrency(totalBudgeted),
           totalActual |-> RoundedCurrency(totalActual),
           totalRemaining |-> RoundedCurrency(totalBudgeted - totalActual),
           overBudgetCategories |->
             Cardinality({r \in budgeted \cup unbudgeted : r.actual > r.budgeted}),
           budgetUtilization |-> Percentage(totalActual, totalBudgeted) ] ]

\* categoryAnalysis is the list of results, one per budget row and one per
\* unbudgeted category; source tells the entries of two rows of one
\* category apart and is not part of the response.
calculateBudgetAnalysis(budgets, actualSpending) ==
  LET budgeted == {BudgetResult(b, actualSpending) : b \in budgets}
      budgetedCategories == {b.category : b \in budgets}
      unbudgeted == {UnbudgetedResult(c, actualSpending) :
                       c \in (DOMAIN actualSpending) \ budgetedCategories}
      totalBudgeted == SumOver(budgeted, "budgeted")
      totalActual == SumOver(budgeted, "actual") + SumOver(unbudgeted, "actual")
  IN [ categoryAnalysis |-> budgeted \cup unbudgeted,
       summary |->
         [ totalBudgeted |-> RoundedCurrency(totalBudgeted),
           totalActual |-> RoundedCurrency(totalActual),
           totalRemaining |-> RoundedCurrency(totalBudgeted - totalActual),
           overBudgetCategories |-> Cardinality({r \in budgeted : r.actual > r.budgeted}),
           budgetUtilization |-> Percentage(totalActual, totalBudgeted) ] ]

-----------------------------------------------------------------------------
(* Requests and responses *)

\* last is the response of the last request served
\* with what it answered (status, error, body), the write commands it sent
\* (writes), and what came before it (after)
Response(op, userId, template, month, status, error, body, writes, after) ==
  [ op |-> op, userId |-> userId, template |-> template, month |-> month,
    status |-> status, error |-> error, body |-> body, writes |-> writes,
    after |-> after ]

NoResponse == Response("none", "", NoName, NoMonth, 0, "", {}, 0, "none")

\* what the request before this one did, if it was a successful GET /budgets
\* of the same owner, template and month
After(userId, template, month) ==
  IF /\ last.op = "getBudgets"
     /\ last.status = 200
     /\ last.userId = userId
     /\ last.template = template
     /\ last.month = month
  THEN IF last.writes > 0 THEN "created" ELSE "returned"
  ELSE "none"

\* the processes that serve interleaved requests
Procs == {1, 2}

\* a request in flight: where its handler stands (pc), its parameters, and
\* the handler's local variables (templateCategories, whether the default
\* template is to be provisioned, the rows of the previous month,
\* rolloverAmounts), the envelope items built (budgets) and how many of
\* them the chunk loop has written, whether rows of the scope were stored
\* when the first chunk was written (overwrote), and whether a catch block
\* has swallowed the failure of one of its store commands (failed)
Task(pc, userId, template, month, templateCategories, provision, existing, rolloverAmounts) ==
  [ pc |-> pc, userId |-> userId, template |-> template, month |-> month,
    templateCategories |-> templateCategories, provision |-> provision,
    existing |-> existing, rolloverAmounts |-> rolloverAmounts,
    budgets |-> {}, written |-> 0, overwrote |-> FALSE, failed |-> FALSE,
    pending |-> {} ]

Idle == Task("idle", "", NoName, NoMonth, {}, FALSE, {}, NoRollover)

-----------------------------------------------------------------------------
(* Handlers: one action per route, the whole handler in one step *)

\* GET /budgets/{template}/{month}
handleBudgets(userId, template, month) ==
  IF template = NoName \/ month = NoMonth
  THEN /\ last' = Response("getBudgets", userId, template, month, 400,
                           "Missing template or month parameter", {}, 0, "none")
       /\ UNCHANGED <<tpl, env, txn, clock, inflight, rec, alert>>
  ELSE \E o \in getOrCreateEnvelopeBudgets(tpl, env, txn, clock, template, month, userId) :
         /\ o.created => clock <= MaxClock
         /\ tpl' = o.tpl
         /\ env' = o.env
         /\ clock' = IF o.created THEN clock + 1 ELSE clock
         /\ last' = Response("getBudgets", userId, template, month,
                             IF o.ok THEN 200 ELSE 500, o.error, o.budgets, o.writes,
                             After(userId, template, month))
         /\ UNCHANGED <<txn, inflight, rec, alert>>

\* the analysis handler with the rows built anew at every request
handleBudgetAnalysisRebuilt(userId, template, month) ==
  \E o \in createEnvelopeBudgetsFromTemplate(tpl, env, txn, clock, template, month, userId) :
    /\ o.created => clock <= MaxClock
    /\ tpl' = o.tpl
    /\ env' = o.env
    /\ clock' = IF o.created THEN clock + 1 ELSE clock
    /\ last' = Response("getAnalysis", userId, template, month,
                        IF o.ok THEN 200 ELSE 500, o.error,
                        IF o.ok
                        THEN calculateBudgetAnalysis(
                               o.budgets, getActualSpending(txn, month, userId))
                        ELSE {},
                        o.writes, "none")
    /\ UNCHANGED <<txn, inflight, rec, alert>>

\* GET /budget-analysis/{template}/{month}
handleBudgetAnalysis(userId, template, month) ==
  IF template = NoName \/ month = NoMonth
  THEN /\ last' = Response("getAnalysis", userId, template, month, 400,
                           "Missing template or month parameter", {}, 0, "none")
       /\ UNCHANGED <<tpl, env, txn, clock, inflight, rec, alert>>
  ELSE \E o \in getOrCreateEnvelopeBudgets(tpl, env, txn, clock, template, month, userId) :
         /\ o.created => clock <= MaxClock
         /\ tpl' = o.tpl
         /\ env' = o.env
         /\ clock' = IF o.created THEN clock + 1 ELSE clock
         /\ last' = Response("getAnalysis", userId, template, month,
                             IF o.ok THEN 200 ELSE 500, o.error,
                             IF o.ok
                             THEN calculateBudgetAnalysis(
                                    o.budgets, getActualSpending(txn, month, userId))
                             ELSE {},
                             o.writes, "none")
         /\ UNCHANGED <<txn, inflight, rec, alert>>

\* the item an UpdateCommand creates when no item has the key: the key and
\* the attribute it sets, every other attribute absent
EnvelopeStub(pk, sk, amount) ==
  [ PK |-> pk, SK |-> sk, id |-> NoId, template_name |-> NoName, category |-> "",
    budget_amount |-> amount, month |-> NoMonth, rollover_enabled |-> FALSE,
    rollover_amount |-> 0, is_active |-> FALSE, created_at |-> 0, user_id |-> "" ]

\* a PutCommand of the key and the amount in place of the UpdateCommand
UpdateBudgetAmountByPut(items, pk, sk, amount) ==
  Put(items, EnvelopeStub(pk, sk, amount))

\* UpdateCommand: SET budget_amount = :amount on the item of the key
UpdateBudgetAmount(items, pk, sk, amount) ==
  IF \E r \in items : r.PK = pk /\ r.SK = sk
  THEN {IF r.PK = pk /\ r.SK = sk THEN [r EXCEPT !.budget_amount = amount] ELSE r :
          r \in items}
  ELSE items \cup {EnvelopeStub(pk, sk, amount)}

RECURSIVE UpdateAll(_, _, _, _, _)
UpdateAll(items, userId, template, month, budgets) ==
  IF budgets = {} THEN items
  ELSE LET b == CHOOSE x \in budgets : TRUE
       IN UpdateAll(UpdateBudgetAmount(items, EnvelopePK(userId, template),
                                       EnvelopeSK(month, b.category), b.budget_amount),
                    userId, template, month, budgets \ {b})

\* PUT /budgets/{template}/{month} with body {budgets: [{category, budget_amount}]}
updateEnvelopeBudget(userId, template, month, budgets) ==
  /\ env' = UpdateAll(env, userId, template, month, budgets)
  /\ last' = Response("updateBudgets", userId, template, month, 200, "", {},
                      Cardinality(budgets), "none")
  /\ UNCHANGED <<tpl, txn, clock, inflight, rec, alert>>

\* DELETE /budget-templates/{templateName}
handleDeleteTemplateCascade(userId, templateName) ==
  /\ templateName # NoName
  /\ tpl' = DeleteKeys(tpl, QueryTemplate(tpl, templateName, userId))
  /\ env' = {r \in env : r.PK # EnvelopePK(userId, templateName)}
  /\ last' = Response("deleteTemplate", userId, templateName, NoMonth, 200, "",
                      {}, Cardinality(QueryTemplate(tpl, templateName, userId)), "none")
  /\ UNCHANGED <<txn, clock, inflight, rec, alert>>

handleDeleteTemplate(userId, templateName) ==
  /\ templateName # NoName
  /\ tpl' = DeleteKeys(tpl, QueryTemplate(tpl, templateName, userId))
  /\ last' = Response("deleteTemplate", userId, templateName, NoMonth, 200, "",
                      {}, Cardinality(QueryTemplate(tpl, templateName, userId)), "none")
  /\ UNCHANGED <<env, txn, clock, inflight, rec, alert>>

\* Template creation of the per-owner template catalog: one item per
\* category entry under the owner's template key, the key that
\* createEnvelopeBudgetsFromTemplate queries
createBudgetTemplate(userId, template_name, categories) ==
  /\ template_name # NoName
  /\ tpl' = BatchWrite(tpl, {TemplateItem(userId, template_name, c) : c \in categories})
  /\ last' = Response("createTemplate", userId, template_name, NoMonth, 201, "", {}, 1, "none")
  /\ UNCHANGED <<env, txn, clock, inflight, rec, alert>>

\* POST /transactions with body {type, category, amount, date}: the handler
\* stores every transaction under the one owner key USER#default#TRANSACTION
createTransaction(type, category, amount, date) ==
  /\ Cardinality(txn) < MaxTxn
  /\ txn' = Put(txn, TransactionItem("default", Cardinality(txn) + 1, type, category,
                                     amount, date, NoId))
  /\ last' = Response("createTransaction", "default", NoName, NoMonth, 201, "", {}, 1, "none")
  /\ UNCHANGED <<tpl, env, clock, inflight, rec, alert>>

-----------------------------------------------------------------------------
(* Inputs of the requests *)

Users == {"default"}

CopyName == <<"Default", " Copy">>

TemplateNames == {DefaultName, CopyName}

\* the names given to templates created by request
CustomNames == {CopyName}

Dec2023 == <<"2", "0", "2", "3", "-", "1", "2">>
Jan2024 == <<"2", "0", "2", "4", "-", "0", "1">>
Feb2024 == <<"2", "0", "2", "4", "-", "0", "2">>

Months == {Dec2023, Jan2024, Feb2024}

\* the (template, month) pairs requested: every month of the default
\* template, and the month of the copy that precedes two of them
Scopes == {<<DefaultName, m>> : m \in Months} \cup {<<CopyName, Dec2023>>}

\* the categories arrays of the template-creation requests
FoodOn == [category |-> "Food", budget_amount |-> 900, rollover_enabled |-> TRUE]
FoodOff == [category |-> "Food", budget_amount |-> 400, rollover_enabled |-> FALSE]
BillsOn == [category |-> "Bills", budget_amount |-> 100, rollover_enabled |-> TRUE]

CategoryLists == {{FoodOff}, {FoodOn, BillsOn}}

\* the budgets arrays of the update requests
BudgetUpdates == {{[category |-> "Food", budget_amount |-> 700],
                   [category |-> "Rent", budget_amount |-> 900]}}

UpdateTemplates == {DefaultName}
UpdateMonths == {Jan2024}

AnalysisScopes == {<<DefaultName, Jan2024>>}

TransactionTypes == {"Expense"}
TransactionCategories == {"Food"}
TransactionAmounts == {300}
TransactionDates == {Dec2023 \o <<"-", "1", "5">>}

-----------------------------------------------------------------------------
(* The budgets core, one request at a time *)

Init ==
  /\ tpl = {}
  /\ env = {}
  /\ txn = {}
  /\ clock = 1
  /\ last = NoResponse
  /\ inflight = [p \in Procs |-> Idle]
  /\ rec = {}
  /\ alert = {}

Next ==
  \/ \E u \in Users, s \in Scopes : handleBudgets(u, s[1], s[2])
  \/ \E u \in Users, s \in AnalysisScopes : handleBudgetAnalysis(u, s[1], s[2])
  \/ \E u \in Users, t \in UpdateTemplates, m \in UpdateMonths, b \in BudgetUpdates :
       updateEnvelopeBudget(u, t, m, b)
  \/ \E u \in Users, t \in TemplateNames : handleDeleteTemplate(u, t)
  \/ \E u \in Users, t \in CustomNames, c \in CategoryLists :
       createBudgetTemplate(u, t, c)
  \/ \E ty \in TransactionTypes, c \in TransactionCategories,
        a \in TransactionAmounts, d \in TransactionDates :
       createTransaction(ty, c, a, d)

Spec == Init /\ [][Next]_vars

-----------------------------------------------------------------------------
(* GET /budgets served by interleaved requests: every await of             *)
(* getOrCreateEnvelopeBudgets and createEnvelopeBudgetsFromTemplate is a   *)
(* step of its own, and the steps of two requests interleave.              *)

At(p, pc) == inflight[p].pc = pc

Goto(p, task) == inflight' = [inflight EXCEPT ![p] = task]

\* the request arrives: handleBudgets up to its call of getOrCreateEnvelopeBudgets
receiveBudgets(p, userId, template, month) ==
  /\ At(p, "idle")
  /\ template # NoName /\ month # NoMonth
  /\ Goto(p, Task("existing", userId, template, month, {}, FALSE, {}, NoRollover))
  /\ UNCHANGED <<tpl, env, txn, clock, last, rec, alert>>

\* the scan for existing rows; rows found are returned
scanExisting(p) ==
  LET t == inflight[p]
      existing == ScanEnvelopes(env, t.template, t.month, t.userId)
  IN /\ At(p, "existing")
     /\ IF existing # {}
        THEN /\ Goto(p, Idle)
             /\ last' = Response("getBudgets", t.userId, t.template, t.month, 200, "",
                                 {BudgetView(i) : i \in existing}, 0, "returned")
        ELSE /\ Goto(p, [t EXCEPT !.pc = "template"])
             /\ last' = last
     /\ UNCHANGED <<tpl, env, txn, clock, rec, alert>>

\* the query for the template's categories
queryTemplate(p) ==
  LET t == inflight[p]
      items == QueryTemplate(tpl, t.template, t.userId)
  IN /\ At(p, "template")
     /\ IF items # {}
        THEN Goto(p, [t EXCEPT !.pc = "previous",
                               !.templateCategories = {TemplateEntry(i) : i \in items}])
        ELSE Goto(p, [t EXCEPT !.pc = "allTemplates"])
     /\ UNCHANGED <<tpl, env, txn, clock, last, rec, alert>>

\* the scan for the owner's template names, when the query found nothing
scanAllTemplates(p) ==
  LET t == inflight[p]
  IN /\ At(p, "allTemplates")
     /\ IF t.template = DefaultName /\ TemplateNamesOf(tpl, t.userId) = {}
        THEN /\ Goto(p, [t EXCEPT !.pc = "default", !.provision = TRUE])
             /\ last' = last
        ELSE /\ Goto(p, Idle)
             /\ last' = Response("getBudgets", t.userId, t.template, t.month, 500,
                                 "TemplateNotFound", {}, 0, "none")
     /\ UNCHANGED <<tpl, env, txn, clock, rec, alert>>

\* createDefaultTemplate: the batch write of the six preset rows
writeDefaultTemplate(p) ==
  LET t == inflight[p]
  IN /\ At(p, "default")
     /\ tpl' = createDefaultTemplate(tpl, DefaultName, t.userId)
     /\ Goto(p, [t EXCEPT !.pc = "previous",
                          !.templateCategories = getDefaultTemplateCategories])
     /\ UNCHANGED <<env, txn, clock, last, rec, alert>>

\* calculateRolloverAmounts: the scan for the rows of the previous month
scanPrevious(p) ==
  LET t == inflight[p]
      existing == ScanEnvelopes(env, t.template, getPreviousMonth(t.month), t.userId)
  IN /\ At(p, "previous")
     /\ IF existing = {}
        THEN Goto(p, [t EXCEPT !.pc = "write", !.rolloverAmounts = NoRollover])
        ELSE Goto(p, [t EXCEPT !.pc = "spending", !.existing = existing])
     /\ UNCHANGED <<tpl, env, txn, clock, last, rec, alert>>

\* calculateRolloverAmounts: the scan for the spending of the previous month
scanPreviousSpending(p) ==
  LET t == inflight[p]
      previousSpending == getActualSpending(txn, getPreviousMonth(t.month), t.userId)
  IN /\ At(p, "spending")
     /\ \E r \in RolloverMaps(t.existing, previousSpending) :
          Goto(p, [t EXCEPT !.pc = "write", !.rolloverAmounts = r])
     /\ UNCHANGED <<tpl, env, txn, clock, last, rec, alert>>

\* BatchWriteCommand takes at most 25 put requests
ChunkSize == 25

\* the sort keys of the categories in the order a Query returns them
SortKeyOrder ==
  << "Bills",
     "C01", "C02", "C03", "C04", "C05", "C06", "C07", "C08", "C09", "C10",
     "C11", "C12", "C13", "C14", "C15", "C16", "C17", "C18", "C19", "C20",
     "C21", "C22", "C23", "C24", "C25", "C26",
     "Entertainment", "Food", "Healthcare", "Rent", "Shopping", "Transportation" >>

Rank(category) == CHOOSE i \in 1..Len(SortKeyOrder) : SortKeyOrder[i] = category

\* the put requests of one batch only, the others left out
WriteRequestsOneBatch(items) ==
  [ i \in 1..(IF Cardinality(items) < ChunkSize THEN Cardinality(items) ELSE ChunkSize) |->
      CHOOSE r \in items :
        Cardinality({q \in items : Rank(q.category) < Rank(r.category)}) = i - 1 ]

\* writeRequests: one put request per template category, in the order of
\* the template's items
WriteRequests(items) ==
  [ i \in 1..Cardinality(items) |->
      CHOOSE r \in items :
        Cardinality({q \in items : Rank(q.category) < Rank(r.category)}) = i - 1 ]

\* writeRequests.slice(i, i + 25), for the i requests already written
Chunk(requests, i) ==
  {requests[k] : k \in {j \in (i + 1)..(i + ChunkSize) : j <= Len(requests)}}

\* one turn of the chunk loop: the batch write of the next chunk of the
\* envelope items, which the first turn builds at time clock; the turn that
\* writes the last chunk sends the response
writeEnvelopes(p) ==
  LET t == inflight[p]
      first == t.written = 0
      built == IF first
               THEN BuildEnvelopes(t.userId, t.template, t.month, t.templateCategories,
                                   t.rolloverAmounts, clock)
               ELSE t.budgets
      requests == WriteRequests(built)
      chunk == Chunk(requests, t.written)
      written == t.written + Cardinality(chunk)
      overwrote == IF first
                   THEN ScanEnvelopes(env, t.template, t.month, t.userId) # {}
                   ELSE t.overwrote
  IN /\ At(p, "write")
     /\ first => clock <= MaxClock
     /\ env' = BatchWrite(env, chunk)
     /\ clock' = IF first THEN clock + 1 ELSE clock
     /\ IF written = Len(requests)
        THEN /\ Goto(p, Idle)
             /\ last' = Response("getBudgets", t.userId, t.template, t.month, 200, "",
                                 {BudgetView(i) : i \in built},
                                 IF t.provision THEN 2 ELSE 1,
                                 IF t.failed THEN "failure"
                                 ELSE IF overwrote THEN "overwrote" ELSE "none")
        ELSE /\ Goto(p, [t EXCEPT !.budgets = built, !.written = written,
                                  !.overwrote = overwrote])
             /\ last' = last
     /\ UNCHANGED <<tpl, txn, rec, alert>>

\* the scopes the interleaved requests ask for
RaceScopes == {<<DefaultName, Dec2023>>, <<DefaultName, Jan2024>>}

\* the template written while requests are in flight
RaceCategoryLists == {{FoodOn, BillsOn}}

NextRace ==
  \/ \E p \in Procs, u \in Users, s \in RaceScopes : receiveBudgets(p, u, s[1], s[2])
  \/ \E p \in Procs : scanExisting(p)
  \/ \E p \in Procs : queryTemplate(p)
  \/ \E p \in Procs : scanAllTemplates(p)
  \/ \E p \in Procs : writeDefaultTemplate(p)
  \/ \E p \in Procs : scanPrevious(p)
  \/ \E p \in Procs : scanPreviousSpending(p)
  \/ \E p \in Procs : writeEnvelopes(p)
  \/ \E u \in Users, c \in RaceCategoryLists : createBudgetTemplate(u, CopyName, c)
  \/ \E ty \in TransactionTypes, c \in TransactionCategories,
        a \in TransactionAmounts, d \in TransactionDates :
       createTransaction(ty, c, a, d)

SpecRace == Init /\ [][NextRace]_vars

-----------------------------------------------------------------------------
(* GET /budgets with failing store commands: a command of the request in   *)
(* flight either answers or throws.  What the request does with the        *)
(* exception is what the try/catch blocks around the command do.           *)

\* the one process that serves the requests, one after the other
FaultProcs == {1}

\* a template of more categories than one BatchWriteCommand takes
BigName == <<"Big">>

BigCategoryNames ==
  { "C01", "C02", "C03", "C04", "C05", "C06", "C07", "C08", "C09", "C10",
    "C11", "C12", "C13", "C14", "C15", "C16", "C17", "C18", "C19", "C20",
    "C21", "C22", "C23", "C24", "C25", "C26" }

BigCategories ==
  {[category |-> c, budget_amount |-> 10, rollover_enabled |-> FALSE] :
     c \in BigCategoryNames}

\* a template whose name begins with the name of the other
BigCopyName == <<"Big", " Copy">>

\* the template-creation requests: name and categories
FaultTemplates == {<<BigName, BigCategories>>, <<BigCopyName, {FoodOff}>>}

FaultScopes ==
  {<<BigName, Jan2024>>, <<BigCopyName, Jan2024>>,
   <<DefaultName, Dec2023>>, <<DefaultName, Jan2024>>}

\* the 500 response of the handler's catch block
InternalServerError(t) ==
  Response("getBudgets", t.userId, t.template, t.month, 500, "StorageError", {}, 0,
           "none")

\* a command fails whose exception reaches the handler: the scan for
\* existing rows, the template query, the scan of all templates, the batch
\* write of the default template, or the batch write of a chunk
commandFails(p) ==
  LET t == inflight[p]
  IN /\ t.pc \in {"existing", "template", "allTemplates", "default", "write"}
     /\ Goto(p, Idle)
     /\ last' = InternalServerError(t)
     /\ UNCHANGED <<tpl, env, txn, clock, rec, alert>>

\* the scan for the rows of the previous month fails: the catch block of
\* calculateRolloverAmounts returns {}
scanPreviousFails(p) ==
  LET t == inflight[p]
  IN /\ At(p, "previous")
     /\ Goto(p, [t EXCEPT !.pc = "write", !.rolloverAmounts = NoRollover,
                          !.failed = TRUE])
     /\ UNCHANGED <<tpl, env, txn, clock, last, rec, alert>>

\* the scan for the spending of the previous month fails: the catch block
\* of getActualSpending returns {}
scanPreviousSpendingFails(p) ==
  LET t == inflight[p]
  IN /\ At(p, "spending")
     /\ \E r \in RolloverMaps(t.existing, <<>>) :
          Goto(p, [t EXCEPT !.pc = "write", !.rolloverAmounts = r, !.failed = TRUE])
     /\ UNCHANGED <<tpl, env, txn, clock, last, rec, alert>>

NextFault ==
  \/ \E p \in FaultProcs, u \in Users, s \in FaultScopes :
       receiveBudgets(p, u, s[1], s[2])
  \/ \E p \in FaultProcs : scanExisting(p)
  \/ \E p \in FaultProcs : queryTemplate(p)
  \/ \E p \in FaultProcs : scanAllTemplates(p)
  \/ \E p \in FaultProcs : writeDefaultTemplate(p)
  \/ \E p \in FaultProcs : scanPrevious(p)
  \/ \E p \in FaultProcs : scanPreviousSpending(p)
  \/ \E p \in FaultProcs : writeEnvelopes(p)
  \/ \E p \in FaultProcs : commandFails(p)
  \/ \E p \in FaultProcs : scanPreviousFails(p)
  \/ \E p \in FaultProcs : scanPreviousSpendingFails(p)
  \/ \E u \in Users, t \in FaultTemplates : createBudgetTemplate(u, t[1], t[2])

SpecFault == Init /\ [][NextFault]_vars

-----------------------------------------------------------------------------
(* getPreviousMonth on its own: a month string is drawn, the function is   *)
(* applied to it, and the response holds the argument and the result.      *)

\* String(n).padStart(width, '0')
Padded(n, width) == padStart(NumToString(n), width, "0")

\* the month string YYYY-MM of a year and a month number
MonthString(year, month) == Padded(year, 4) \o <<"-">> \o Padded(month, 2)

\* the years of the month strings drawn
InputYears == {50, 99, 100, 999, 1000, 1001, 1999, 2000, 2023, 2024, 9999}

MonthInputs == {MonthString(y, m) : y \in InputYears, m \in 1..12}

InitMonth ==
  /\ tpl = {}
  /\ env = {}
  /\ txn = {}
  /\ clock = 1
  /\ inflight = [p \in Procs |-> Idle]
  /\ rec = {}
  /\ alert = {}
  /\ \E m \in MonthInputs :
       last = Response("monthString", "", NoName, m, 0, "", <<>>, 0, "none")

applyGetPreviousMonth ==
  /\ last.op = "monthString"
  /\ last' = [last EXCEPT !.op = "getPreviousMonth", !.body = getPreviousMonth(last.month)]
  /\ UNCHANGED <<tpl, env, txn, clock, inflight, rec, alert>>

NextMonth == applyGetPreviousMonth

SpecMonth == InitMonth /\ [][NextMonth]_vars

-----------------------------------------------------------------------------
(* calculateBudgetAnalysis on its own: a list of budgets and a spending    *)
(* map are drawn, the function is applied to them, and the response holds  *)
(* the arguments and the result.                                           *)

\* a budget as getOrCreateEnvelopeBudgets returns it
AnalysisBudget(category, budget_amount, rollover_enabled, rollover_amount, now) ==
  BudgetView(EnvelopeItem("default", DefaultName, Jan2024,
                          [category |-> category, budget_amount |-> budget_amount,
                           rollover_enabled |-> rollover_enabled],
                          rollover_amount, now))

\* the budgets drawn from: two rows of one category among them, one of
\* them with nothing budgeted
AnalysisBudgets ==
  { AnalysisBudget("Food", 500, TRUE, 0, 1),
    AnalysisBudget("Food", 0, FALSE, 0, 2),
    AnalysisBudget("Entertainment", 200, TRUE, 0, 1),
    AnalysisBudget("Bills", 700, TRUE, 100, 1) }

AnalysisCategories == {"Food", "Entertainment", "Bills", "Travel"}

\* the amounts spent: half a hundredth and seven thousandths among them
AnalysisAmounts == {5, 7, 250, 300}

\* the spending maps drawn from
AnalysisSpendings ==
  UNION {[cats -> AnalysisAmounts] : cats \in SUBSET AnalysisCategories}

InitAnalysis ==
  /\ tpl = {}
  /\ env = {}
  /\ txn = {}
  /\ clock = 1
  /\ inflight = [p \in Procs |-> Idle]
  /\ rec = {}
  /\ alert = {}
  /\ \E budgets \in SUBSET AnalysisBudgets, actualSpending \in AnalysisSpendings :
       last = Response("analysisInput", "", NoName, NoMonth, 0, "",
                       [budgets |-> budgets, actualSpending |-> actualSpending], 0, "none")

applyCalculateBudgetAnalysis ==
  /\ last.op = "analysisInput"
  /\ last' = [last EXCEPT
                !.op = "calculateBudgetAnalysis",
                !.body = [budgets |-> last.body.budgets,
                          actualSpending |-> last.body.actualSpending,
                          analysis |-> calculateBudgetAnalysis(
                                         last.body.budgets, last.body.actualSpending)]]
  /\ UNCHANGED <<tpl, env, txn, clock, inflight, rec, alert>>

NextAnalysis == applyCalculateBudgetAnalysis

SpecAnalysis == InitAnalysis /\ [][NextAnalysis]_vars

-----------------------------------------------------------------------------
(* getActualSpending on its own: the store holds some of the transactions  *)
(* that POST /transactions and executeRecurringTransaction write, the      *)
(* function is applied for an owner and a month, and the response holds    *)
(* the map it returns.                                                     *)

\* the owners that execute recurring transactions
SpendingUsers == {"default", "other"}

SpendingMonths == {Dec2023, Jan2024}

\* the transactions the store may hold
SpendingTransactions ==
  { TransactionItem("default", 1, "Expense", "Food", 300, Jan2024 \o <<"-", "1", "5">>, NoId),
    TransactionItem("default", 2, "Expense", "Food", 250, Jan2024 \o <<"-", "2", "0">>, NoId),
    TransactionItem("default", 3, "Income", "Food", 300, Jan2024 \o <<"-", "0", "1">>, NoId),
    TransactionItem("default", 4, "Expense", "Food", 7, Dec2023 \o <<"-", "1", "5">>, NoId),
    TransactionItem("default", 5, "Expense", "Bills", 5, Jan2024 \o <<"-", "0", "2">>, NoId),
    ExecutedTransactionItem("default", 6, 1, "expense", "Food", 250,
                            Jan2024 \o <<"-", "0", "3">>),
    ExecutedTransactionItem("other", 7, 2, "expense", "Food", 300,
                            Jan2024 \o <<"-", "0", "4">>),
    ExecutedTransactionItem("other", 8, 3, "income", "Bills", 250,
                            Jan2024 \o <<"-", "0", "5">>) }

InitSpending ==
  /\ tpl = {}
  /\ env = {}
  /\ txn \in SUBSET SpendingTransactions
  /\ clock = 1
  /\ last = NoResponse
  /\ inflight = [p \in Procs |-> Idle]
  /\ rec = {}
  /\ alert = {}

applyGetActualSpending(userId, month) ==
  /\ last' = Response("getActualSpending", userId, NoName, month, 200, "",
                      getActualSpending(txn, month, userId), 0, "none")
  /\ UNCHANGED <<tpl, env, txn, clock, inflight, rec, alert>>

NextSpending == \E u \in SpendingUsers, m \in SpendingMonths : applyGetActualSpending(u, m)

SpecSpending == InitSpending /\ [][NextSpending]_vars

-----------------------------------------------------------------------------
(* Requests with missing or malformed parameters: the handlers are given   *)
(* path parameters and update entries as a client may send them.           *)

\* a month string with a month number that no month has
Month13 == <<"2", "0", "2", "4", "-", "1", "3">>

Dec2024 == <<"2", "0", "2", "4", "-", "1", "2">>

\* `${budget.category}` of an entry without a category
Undefined == "undefined"

\* the path parameters of the requests: an empty template, an empty month
\* and a malformed month among them
ValidationScopes ==
  { <<DefaultName, Jan2024>>, <<DefaultName, Dec2024>>, <<DefaultName, Month13>>,
    <<DefaultName, NoMonth>>, <<NoName, Jan2024>> }

\* the path parameters of the update requests
ValidationUpdateScopes == {<<DefaultName, Jan2024>>, <<DefaultName, Month13>>}

\* the budgets arrays of the update requests: one with an entry that has no
\* category
ValidationUpdates ==
  { {[category |-> "Food", budget_amount |-> 700]},
    {[category |-> "Food", budget_amount |-> 900],
     [category |-> Undefined, budget_amount |-> 100]} }

NextValidation ==
  \/ \E u \in Users, s \in ValidationScopes : handleBudgets(u, s[1], s[2])
  \/ \E u \in Users, s \in ValidationScopes : handleBudgetAnalysis(u, s[1], s[2])
  \/ \E u \in Users, s \in ValidationUpdateScopes, b \in ValidationUpdates :
       updateEnvelopeBudget(u, s[1], s[2], b)

SpecValidation == Init /\ [][NextValidation]_vars

-----------------------------------------------------------------------------
(* The budget update command by command: updateEnvelopeBudget sends one    *)
(* UpdateCommand per entry and awaits them together, so the commands reach *)
(* the table one at a time, in any order, while other requests are served. *)

UpdateProcs == {1}

\* the budgets arrays of the update requests
UpdateRequests ==
  { {[category |-> "Food", budget_amount |-> 700],
     [category |-> "Bills", budget_amount |-> 900]},
    {[category |-> "Food", budget_amount |-> 600]} }

UpdateScopes == {<<DefaultName, Dec2023>>, <<DefaultName, Jan2024>>}

\* the request is parsed and its commands are created
receiveUpdate(p, userId, template, month, budgets) ==
  /\ At(p, "idle")
  /\ Goto(p, [Task("update", userId, template, month, {}, FALSE, {}, NoRollover)
                EXCEPT !.budgets = budgets, !.pending = budgets])
  /\ UNCHANGED <<tpl, env, txn, clock, last, rec, alert>>

\* every command takes effect when the last one does
SendOnCommit(items, t, b) ==
  IF t.pending = {b}
  THEN UpdateAll(items, t.userId, t.template, t.month, t.budgets)
  ELSE items

\* the UpdateCommand of one entry takes effect
Send(items, t, b) ==
  UpdateBudgetAmount(items, EnvelopePK(t.userId, t.template),
                     EnvelopeSK(t.month, b.category), b.budget_amount)

sendUpdateCommand(p) ==
  /\ At(p, "update")
  /\ \E b \in inflight[p].pending :
       /\ env' = Send(env, inflight[p], b)
       /\ Goto(p, [inflight[p] EXCEPT !.pending = @ \ {b}, !.written = @ + 1])
  /\ UNCHANGED <<tpl, txn, clock, last, rec, alert>>

\* Promise.all resolves and the request is answered
updateResolved(p) ==
  /\ At(p, "update")
  /\ inflight[p].pending = {}
  /\ LET t == inflight[p]
     IN last' = Response("updateBudgets", t.userId, t.template, t.month, 200, "", {},
                         t.written, "none")
  /\ Goto(p, Idle)
  /\ UNCHANGED <<tpl, env, txn, clock, rec, alert>>

NextUpdate ==
  \/ \E p \in UpdateProcs, u \in Users, s \in UpdateScopes, b \in UpdateRequests :
       receiveUpdate(p, u, s[1], s[2], b)
  \/ \E p \in UpdateProcs : sendUpdateCommand(p)
  \/ \E p \in UpdateProcs : updateResolved(p)
  \/ \E u \in Users, s \in UpdateScopes : handleBudgets(u, s[1], s[2])
  \/ \E u \in Users, s \in UpdateScopes : handleBudgetAnalysis(u, s[1], s[2])

SpecUpdate == Init /\ [][NextUpdate]_vars

-----------------------------------------------------------------------------
(* One custom template over two consecutive months: the template is        *)
(* created, deleted and created again between the requests for its months. *)

TemplateScopes == {<<CopyName, Dec2023>>, <<CopyName, Jan2024>>}

NextTemplates ==
  \/ \E u \in Users, s \in TemplateScopes : handleBudgets(u, s[1], s[2])
  \/ \E u \in Users, t \in CustomNames : handleDeleteTemplate(u, t)
  \/ \E u \in Users, t \in CustomNames, c \in CategoryLists :
       createBudgetTemplate(u, t, c)
  \/ \E ty \in TransactionTypes, c \in TransactionCategories,
        a \in TransactionAmounts, d \in TransactionDates :
       createTransaction(ty, c, a, d)

SpecTemplates == Init /\ [][NextTemplates]_vars

-----------------------------------------------------------------------------
(* Recurring transactions.  A date is the triple <<year, month, day>> that *)
(* a Date object holds; toISODate writes it as YYYY-MM-DD.  The order of   *)
(* the triples is the order of those strings.                              *)

NoDate == <<>>

IsLeapYear(y) == (y % 4 = 0 /\ y % 100 # 0) \/ y % 400 = 0

DaysInMonth(y, m) ==
  IF m = 2 THEN (IF IsLeapYear(y) THEN 29 ELSE 28)
  ELSE IF m \in {4, 6, 9, 11} THEN 30 ELSE 31

\* a Date object set to a month after December or a day after the end of
\* its month holds the date that many months or days later
RECURSIVE DateObject(_, _, _)
DateObject(y, m, d) ==
  IF m > 12 THEN DateObject(y + 1, m - 12, d)
  ELSE IF d > DaysInMonth(y, m) THEN DateObject(y, m + 1, d - DaysInMonth(y, m))
  ELSE <<y, m, d>>

\* date.toISOString().split('T')[0]
toISODate(date) ==
  Padded(date[1], 4) \o <<"-">> \o Padded(date[2], 2) \o <<"-">> \o Padded(date[3], 2)

\* next_execution <= :today, on well-formed dates
DateLE(a, b) ==
  \/ a[1] < b[1]
  \/ a[1] = b[1] /\ a[2] < b[2]
  \/ a[1] = b[1] /\ a[2] = b[2] /\ a[3] <= b[3]

\* the next execution is the date of the execution itself
NextExecutionSameDay(fromDate, frequency) == fromDate

\* NoDate stands for the Error thrown on an unknown frequency
calculateNextExecution(fromDate, frequency) ==
  CASE frequency = "daily" -> DateObject(fromDate[1], fromDate[2], fromDate[3] + 1)
    [] frequency = "weekly" -> DateObject(fromDate[1], fromDate[2], fromDate[3] + 7)
    [] frequency = "monthly" -> DateObject(fromDate[1], fromDate[2] + 1, fromDate[3])
    [] frequency = "yearly" -> DateObject(fromDate[1] + 1, fromDate[2], fromDate[3])
    [] OTHER -> NoDate

\* the day of the first tick of the clock
FirstDay == <<2024, 1, 30>>

\* new Date(): every tick of the clock is a day later
RECURSIVE DateOf(_)
DateOf(now) ==
  IF now <= 1 THEN FirstDay
  ELSE LET before == DateOf(now - 1)
       IN DateObject(before[1], before[2], before[3] + 1)

RecurringPrefix(userId) == <<"USER#", userId, "#RECURRING#">>

RecurringPK(userId, id) == RecurringPrefix(userId) \o id

RecurringItem(userId, id, type, category, amount, frequency, start_date, is_active) ==
  [ PK |-> RecurringPK(userId, id),
    SK |-> "METADATA",
    id |-> id,
    name |-> id,
    amount |-> amount,
    category |-> category,
    type |-> type,
    frequency |-> frequency,
    start_date |-> start_date,
    is_active |-> is_active,
    next_execution |-> start_date,
    last_executed |-> NoDate,
    execution_count |-> 0,
    user_id |-> userId ]

\* POST /api/recurring; the id is new
createRecurringTransaction(userId, id, type, category, amount, frequency, start, on) ==
  /\ \A r \in rec : r.PK # RecurringPK(userId, id)
  /\ IF type \notin {"income", "expense"}
     THEN /\ last' = Response("createRecurring", userId, NoName, NoMonth, 400,
                              "Type must be \"income\" or \"expense\"", {}, 0, "none")
          /\ UNCHANGED rec
     ELSE /\ rec' = Put(rec, RecurringItem(userId, id, type, category, amount, frequency,
                                           start, on))
          /\ last' = Response("createRecurring", userId, NoName, NoMonth, 201, "",
                              [id |-> id], 1, "none")
  /\ UNCHANGED <<tpl, env, txn, clock, inflight, alert>>

\* UpdateCommand of an execution: SET last_executed, next_execution,
\* execution_count = execution_count + 1
UpdateExecuted(items, pk, lastExecuted, nextExecution) ==
  {IF r.PK = pk /\ r.SK = "METADATA"
   THEN [r EXCEPT !.last_executed = lastExecuted,
                  !.next_execution = nextExecution,
                  !.execution_count = @ + 1]
   ELSE r : r \in items}

\* the outcome of a call of executeRecurringTransaction(id, userId) at the
\* time now: the status it returns (500 for an exception), the transaction
\* put and the stores as the call leaves them.  The two writes are sent
\* together and either of them may fail.
ExecuteOutcome(status, recS, txnS, transaction) ==
  [status |-> status, rec |-> recS, txn |-> txnS, transaction |-> transaction]

executeRecurring(recS, txnS, id, userId, now) ==
  LET found == {r \in recS : r.PK = RecurringPK(userId, id)}
      r == CHOOSE x \in found : TRUE
      today == DateOf(now)
      transaction == ExecutedTransactionItem(userId, Cardinality(txnS) + 1, id, r.type,
                                             r.category, r.amount, toISODate(today))
      nextExecution == calculateNextExecution(today, r.frequency)
      put == Put(txnS, transaction)
      updated == UpdateExecuted(recS, RecurringPK(userId, id), today, nextExecution)
  IN IF found = {} THEN {ExecuteOutcome(404, recS, txnS, {})}
     ELSE IF ~r.is_active THEN {ExecuteOutcome(400, recS, txnS, {})}
     ELSE IF nextExecution = NoDate THEN {ExecuteOutcome(500, recS, txnS, {})}
     ELSE { ExecuteOutcome(200, updated, put, {transaction}),
            ExecuteOutcome(500, recS, put, {}),
            ExecuteOutcome(500, updated, txnS, {}),
            ExecuteOutcome(500, recS, txnS, {}) }

\* the executions of an item that the model follows
Executable(id) == \A r \in rec : r.id = id => r.execution_count < MaxTxn

\* POST /api/recurring/{id}/execute
executeRecurringTransaction(userId, id) ==
  /\ Cardinality(txn) < MaxTxn
  /\ Executable(id)
  /\ \E o \in executeRecurring(rec, txn, id, userId, clock) :
       /\ rec' = o.rec
       /\ txn' = o.txn
       /\ last' = Response("execute", userId, NoName, NoMonth, o.status, "",
                           [id |-> id, transaction |-> o.transaction], 0, "none")
  /\ UNCHANGED <<tpl, env, clock, inflight, alert>>

\* a call of executeDueTransactions in flight: the items its scan found
\* that are still to be executed, and the ones executed with status 200
DueTask(userId, today, due, executed) ==
  [ pc |-> "due", userId |-> userId, today |-> today, due |-> due,
    executed |-> executed ]

\* begins_with(PK, :pk) AND is_active = :active AND next_execution <= :today
DueItems(items, userId, today) ==
  {r \in items : /\ BeginsWith(r.PK, RecurringPrefix(userId))
                 /\ r.is_active
                 /\ DateLE(r.next_execution, today)}

DueResponse(userId, today, executed) ==
  Response("executeDue", userId, NoName, NoMonth, 200, "",
           [today |-> today, executed_count |-> Cardinality(executed),
            executed_transactions |-> executed], 0, "none")

\* POST /api/recurring/execute-due: the scan for the due items
receiveExecuteDue(p, userId) ==
  LET today == DateOf(clock)
      found == {r.id : r \in DueItems(rec, userId, today)}
  IN /\ At(p, "idle")
     /\ IF found = {}
        THEN /\ last' = DueResponse(userId, today, {})
             /\ UNCHANGED inflight
        ELSE /\ Goto(p, DueTask(userId, today, found, {}))
             /\ UNCHANGED last
     /\ UNCHANGED <<tpl, env, txn, clock, rec, alert>>

\* the loop body: one found item is executed; an exception is caught
executeNext(p) ==
  /\ At(p, "due")
  /\ Cardinality(txn) < MaxTxn
  /\ LET t == inflight[p]
     IN \E id \in t.due :
          /\ Executable(id)
          /\ \E o \in executeRecurring(rec, txn, id, t.userId, clock) :
               /\ rec' = o.rec
               /\ txn' = o.txn
               /\ Goto(p, DueTask(t.userId, t.today, t.due \ {id},
                         IF o.status = 200 THEN t.executed \cup {id}
                         ELSE t.executed))
  /\ UNCHANGED <<tpl, env, clock, last, alert>>

\* the loop is over and the request is answered
dueResolved(p) ==
  /\ At(p, "due")
  /\ inflight[p].due = {}
  /\ last' = DueResponse(inflight[p].userId, inflight[p].today, inflight[p].executed)
  /\ Goto(p, Idle)
  /\ UNCHANGED <<tpl, env, txn, clock, rec, alert>>

\* the days after the first that the model follows
MaxDay == 1

\* a day passes
tick ==
  /\ clock <= MaxDay
  /\ clock' = clock + 1
  /\ UNCHANGED <<tpl, env, txn, last, inflight, rec, alert>>

\* the creation requests: an id is created with one body only
RecurringRequests ==
  { [id |-> <<"r1">>, type |-> "expense", category |-> "Food", amount |-> 250,
     frequency |-> "daily", start_date |-> <<2024, 1, 30>>, is_active |-> TRUE],
    [id |-> <<"r2">>, type |-> "expense", category |-> "Food", amount |-> 300,
     frequency |-> "monthly", start_date |-> <<2024, 1, 31>>, is_active |-> TRUE],
    [id |-> <<"r3">>, type |-> "expense", category |-> "Bills", amount |-> 250,
     frequency |-> "daily", start_date |-> <<2024, 1, 30>>, is_active |-> FALSE] }

\* the ids of the execute requests: "r0" is never created
RecurringIds == {<<"r0">>, <<"r1">>, <<"r2">>, <<"r3">>}

\* single executions
NextRecurring ==
  \/ \E u \in Users, d \in RecurringRequests :
       createRecurringTransaction(u, d.id, d.type, d.category, d.amount, d.frequency,
                                  d.start_date, d.is_active)
  \/ \E u \in Users, id \in RecurringIds : executeRecurringTransaction(u, id)
  \/ tick

SpecRecurring == Init /\ [][NextRecurring]_vars

\* the items of the concurrent execute-due requests
DueRequests == {d \in RecurringRequests : d.is_active}

\* two execute-due requests at a time
NextDue ==
  \/ \E u \in Users, d \in DueRequests :
       createRecurringTransaction(u, d.id, d.type, d.category, d.amount, d.frequency,
                                  d.start_date, d.is_active)
  \/ \E p \in Procs, u \in Users : receiveExecuteDue(p, u)
  \/ \E p \in Procs : executeNext(p)
  \/ \E p \in Procs : dueResolved(p)
  \/ tick

SpecDue == Init /\ [][NextDue]_vars


-----------------------------------------------------------------------------
(* Executions of a recurring expense next to the budget requests of the    *)
(* same owner.                                                             *)

ExecutedRequests == {d \in RecurringRequests : d.id = <<"r1">>}

ExecutedScopes == {<<DefaultName, Jan2024>>, <<DefaultName, Feb2024>>}

NextExecuted ==
  \/ \E u \in Users, d \in ExecutedRequests :
       createRecurringTransaction(u, d.id, d.type, d.category, d.amount, d.frequency,
                                  d.start_date, d.is_active)
  \/ \E u \in Users, d \in ExecutedRequests : executeRecurringTransaction(u, d.id)
  \/ \E u \in Users, s \in ExecutedScopes : handleBudgets(u, s[1], s[2])
  \/ \E u \in Users, s \in ExecutedScopes : handleBudgetAnalysis(u, s[1], s[2])

SpecExecuted == Init /\ [][NextExecuted]_vars

-----------------------------------------------------------------------------
(* Updates of recurring transactions and of alerts.  An update command     *)
(* with ReturnValues ALL_NEW creates the item of its key when there is     *)
(* none and returns the attributes of the item as it is after the update.  *)

\* result.Attributes of the update of the item of a key
AttributesAfter(items, pk, sk, stub) ==
  IF \E r \in items : r.PK = pk /\ r.SK = sk
  THEN {r \in items : r.PK = pk /\ r.SK = sk}
  ELSE {stub}

\* the item that an update of a key without an item creates: the key and
\* the attributes that the update sets
RecurringStub(userId, id) ==
  [ RecurringItem("", NoId, "", "", 0, "", NoDate, FALSE)
      EXCEPT !.PK = RecurringPK(userId, id), !.name = NoId ]

\* the attributes that a PUT /api/recurring/{id} sets
SetRecurring(r, data) ==
  [r EXCEPT !.amount = data.amount, !.is_active = data.is_active]

\* PUT /api/recurring/{id}
updateRecurringTransaction(userId, id, data) ==
  LET pk == RecurringPK(userId, id)
      before == AttributesAfter(rec, pk, "METADATA", RecurringStub(userId, id))
      Attributes == {SetRecurring(r, data) : r \in before}
  IN /\ rec' = {r \in rec : r.PK # pk} \cup Attributes
     /\ last' = IF Attributes = {}
                THEN Response("updateRecurring", userId, NoName, NoMonth, 404,
                              "Recurring transaction not found", [id |-> id], 0, "none")
                ELSE Response("updateRecurring", userId, NoName, NoMonth, 200, "",
                              [id |-> id], 1, "none")
     /\ UNCHANGED <<tpl, env, txn, clock, inflight, alert>>

AlertPK(userId, alertId) == <<"USER#", userId, "#ALERT#">> \o alertId

AlertSK(alertId) == <<"ALERT#">> \o alertId

AlertItem(userId, alertId, name, threshold) ==
  [ PK |-> AlertPK(userId, alertId),
    SK |-> AlertSK(alertId),
    id |-> alertId,
    name |-> name,
    threshold |-> threshold,
    isActive |-> TRUE,
    is_read |-> FALSE,
    is_dismissed |-> FALSE,
    user_id |-> userId ]

AlertStub(userId, alertId) ==
  [ AlertItem("", NoId, NoName, 0) EXCEPT !.PK = AlertPK(userId, alertId),
                                          !.SK = AlertSK(alertId),
                                          !.isActive = FALSE ]

AlertResponse(op, userId, alertId, Attributes, writes) ==
  IF Attributes = {}
  THEN Response(op, userId, NoName, NoMonth, 404, "Alert not found",
                [id |-> alertId], 0, "none")
  ELSE Response(op, userId, NoName, NoMonth, 200, "", [id |-> alertId], writes, "none")

\* POST /api/alerts; the id is new
createAlert(userId, alertId, name, threshold) ==
  /\ \A r \in alert : r.PK # AlertPK(userId, alertId)
  /\ alert' = Put(alert, AlertItem(userId, alertId, name, threshold))
  /\ last' = Response("createAlert", userId, NoName, NoMonth, 201, "",
                      [id |-> alertId], 1, "none")
  /\ UNCHANGED <<tpl, env, txn, clock, inflight, rec>>

\* the item that an update of an alert sets its attributes on
UpdatedAlertItem(userId, alertId) ==
  AttributesAfter(alert, AlertPK(userId, alertId), AlertSK(alertId),
                  AlertStub(userId, alertId))

\* PUT /api/alerts/{id}
updateAlert(userId, alertId, threshold) ==
  LET Set(r) == [r EXCEPT !.threshold = threshold]
      Attributes == {Set(r) : r \in UpdatedAlertItem(userId, alertId)}
  IN /\ alert' = {r \in alert : r.PK # AlertPK(userId, alertId)} \cup Attributes
     /\ last' = AlertResponse("updateAlert", userId, alertId, Attributes, 1)
     /\ UNCHANGED <<tpl, env, txn, clock, inflight, rec>>

\* PATCH /api/alerts/{id}/read
markAlertAsRead(userId, alertId) ==
  LET Set(r) == [r EXCEPT !.is_read = TRUE]
      Attributes == {Set(r) : r \in UpdatedAlertItem(userId, alertId)}
  IN /\ alert' = {r \in alert : r.PK # AlertPK(userId, alertId)} \cup Attributes
     /\ last' = AlertResponse("markAlertAsRead", userId, alertId, Attributes, 1)
     /\ UNCHANGED <<tpl, env, txn, clock, inflight, rec>>

\* PATCH /api/alerts/{id}/dismiss
dismissAlert(userId, alertId) ==
  LET Set(r) == [r EXCEPT !.is_dismissed = TRUE]
      Attributes == {Set(r) : r \in UpdatedAlertItem(userId, alertId)}
  IN /\ alert' = {r \in alert : r.PK # AlertPK(userId, alertId)} \cup Attributes
     /\ last' = AlertResponse("dismissAlert", userId, alertId, Attributes, 1)
     /\ UNCHANGED <<tpl, env, txn, clock, inflight, rec>>

\* DELETE /api/alerts/{id}: ReturnValues ALL_OLD
deleteAlert(userId, alertId) ==
  LET Attributes == {r \in alert : r.PK = AlertPK(userId, alertId)}
  IN /\ alert' = alert \ Attributes
     /\ last' = AlertResponse("deleteAlert", userId, alertId, Attributes, 1)
     /\ UNCHANGED <<tpl, env, txn, clock, inflight, rec>>

\* ids of the path: "r0" and "a0" are never created
UpdatedRecurringIds == {<<"r0">>, <<"r1">>}

UpdatedRequests == {d \in RecurringRequests : d.id = <<"r1">>}

RecurringUpdates == {[amount |-> 100, is_active |-> TRUE], [amount |-> 250, is_active |-> FALSE]}

AlertIds == {<<"a0">>, <<"a1">>}

CreatedAlertIds == {<<"a1">>}

AlertNames == {<<"Food limit">>}

AlertThresholds == {400, 500}

NextEntityUpdate ==
  \/ \E u \in Users, d \in UpdatedRequests :
       createRecurringTransaction(u, d.id, d.type, d.category, d.amount, d.frequency,
                                  d.start_date, d.is_active)
  \/ \E u \in Users, id \in UpdatedRecurringIds, data \in RecurringUpdates :
       updateRecurringTransaction(u, id, data)
  \/ \E u \in Users, id \in CreatedAlertIds, n \in AlertNames, t \in AlertThresholds :
       createAlert(u, id, n, t)
  \/ \E u \in Users, id \in AlertIds, t \in AlertThresholds : updateAlert(u, id, t)
  \/ \E u \in Users, id \in AlertIds : markAlertAsRead(u, id)
  \/ \E u \in Users, id \in AlertIds : dismissAlert(u, id)
  \/ \E u \in Users, id \in AlertIds : deleteAlert(u, id)

SpecEntityUpdate == Init /\ [][NextEntityUpdate]_vars

-----------------------------------------------------------------------------
(* What the claims speak of *)

\* the envelope rows of one owner, template and month
ScopeRows(items, userId, template, month) ==
  {r \in items : r.user_id = userId /\ r.template_name = template /\ r.month = month}

\* the envelope rows of one owner under any template
OwnerRows(items, userId) ==
  {r \in items : BeginsWith(r.PK, <<"USER#", userId, "#ENVELOPE#">>)}

\* what the owner spent in a category in a month: the expense transactions
SpentIn(userId, month, category) ==
  SumAmounts({x \in txn : /\ x.PK = TransactionPK(userId)
                          /\ x.type = "Expense"
                          /\ SubSeq(x.date, 1, 7) = month
                          /\ x.category = category})

\* the attributes of the returned budgets that the caller compares
ReturnedRows(body) ==
  {[id |-> b.id, category |-> b.category, budget_amount |-> b.budget_amount,
    rollover_enabled |-> b.rollover_enabled, rollover_amount |-> b.rollover_amount] :
     b \in body}

\* no two rows of a set are rows of the same template, month and category
NoDuplicateRows(rows) ==
  \A r1 \in rows : \A r2 \in rows :
    (r1.template_name = r2.template_name /\ r1.month = r2.month
       /\ r1.category = r2.category) => r1 = r2

\* this step serves GET /budgets, or GET /budget-analysis, and creates rows
CreatingStep ==
  /\ last'.op \in {"getBudgets", "getAnalysis"}
  /\ last'.status = 200
  /\ last'.writes > 0

\* the rows the creating step wrote for the scope it was asked for
CreatedRows == ScopeRows(env', last'.userId, last'.template, last'.month)

-----------------------------------------------------------------------------
(* Repeated requests *)

\* what holds of a GET /budgets that directly follows a successful GET
\* /budgets of the same owner, template and month
C1_SecondCallStep ==
  (last'.op = "getBudgets" /\ last'.after # "none") =>
     /\ last'.status = 200
     /\ ReturnedRows(last'.body) = ReturnedRows(last.body)
     /\ last'.writes = 0
     /\ env' = env
     /\ tpl' = tpl
     /\ NoDuplicateRows(last'.body)

\* C1: a GET /budgets that directly follows a successful GET /budgets of the
\* same owner, template and month returns the same rows (id, category,
\* budget_amount, rollover_enabled, rollover_amount), sends no write, leaves
\* the store as it was and returns no row twice.
C1_Idempotent == [][C1_SecondCallStep]_vars

C1_Witness ==
  /\ last.op = "getBudgets"
  /\ last.after = "created"
  /\ last.status = 200
  /\ last.writes = 0
  /\ Cardinality(last.body) = 6

-----------------------------------------------------------------------------
(* Interleaved creation *)

\* C2: however the steps of two GET /budgets requests for one scope
\* interleave, also when both find no rows and both write, the store holds
\* at most one envelope row per owner, template, month and category.
C2_NoDuplicateRows ==
  \A r1 \in env : \A r2 \in env :
    ( /\ r1.user_id = r2.user_id
      /\ r1.template_name = r2.template_name
      /\ r1.month = r2.month
      /\ r1.category = r2.category ) => r1 = r2

\* the second of two requests that both found no rows has written its rows
\* over the rows of the first
C2_Witness ==
  /\ last.op = "getBudgets"
  /\ last.after = "overwrote"
  /\ last.status = 200
  /\ ScopeRows(env, last.userId, last.template, last.month) # {}
  /\ \A r \in ScopeRows(env, last.userId, last.template, last.month) :
       r.created_at = clock - 1

-----------------------------------------------------------------------------
(* Rollover at creation.  In a creating step the previous-month rows of    *)
(* the scope are those of the state before the step.                       *)

PreviousRows ==
  ScopeRows(env, last'.userId, last'.template, getPreviousMonth(last'.month))

\* budget_amount - spend of the previous month in the category + rollover_amount
RemainingOf(b) ==
  b.budget_amount - SpentIn(last'.userId, getPreviousMonth(last'.month), b.category)
    + b.rollover_amount

\* the created row of a category has this rollover_amount
CreatedRollover(category, amount) ==
  \A n \in CreatedRows : n.category = category => n.rollover_amount = amount

\* the scan for the previous month matched the rows of the scope and no other
ScanWithinScope ==
  ScanEnvelopes(env, last'.template, getPreviousMonth(last'.month), last'.userId)
    = PreviousRows

C3_Step ==
  CreatingStep =>
    \A b \in PreviousRows :
      (b.rollover_enabled /\ RemainingOf(b) > 0) =>
         CreatedRollover(b.category, RemainingOf(b))

\* C3: when rows are created and the previous month has rows, the new row
\* of every category whose previous row has rollover enabled carries
\* remaining = budget_amount - spend + rollover_amount, whenever remaining > 0.
C3_RolloverCarried == [][C3_Step]_vars

\* the same, for the creations whose scan matched no row of another template
C3_WithinScope == [][(CreatingStep /\ ScanWithinScope) => C3_Step]_vars

\* every stored row has rollover_amount >= 0
C4_NonNegative == \A r \in env : r.rollover_amount >= 0

C4_Step ==
  CreatingStep =>
    \A b \in PreviousRows :
      (b.rollover_enabled /\ RemainingOf(b) <= 0) => CreatedRollover(b.category, 0)

\* C4: every stored row has rollover_amount >= 0, and when the spend of the
\* previous month meets or exceeds budget_amount + rollover_amount of a
\* rollover-enabled category the new row of the category gets rollover 0.
C4_FloorAtZero == [][C4_Step /\ C4_NonNegative']_vars

\* the same, for the creations whose scan matched no row of another template
C4_WithinScope == [][((CreatingStep /\ ScanWithinScope) => C4_Step) /\ C4_NonNegative']_vars

C5_Step ==
  CreatingStep =>
    \A b \in PreviousRows : ~b.rollover_enabled => CreatedRollover(b.category, 0)

\* C5: a category whose previous-month row has rollover disabled gets
\* rollover_amount 0 in the new row, whatever was spent.
C5_DisabledGetsZero == [][C5_Step]_vars

\* the same, for the creations whose scan matched no row of another template
C5_WithinScope == [][(CreatingStep /\ ScanWithinScope) => C5_Step]_vars

C6_Step ==
  (CreatingStep /\ PreviousRows = {}) => \A n \in CreatedRows : n.rollover_amount = 0

\* C6: when the scope has no row for the previous month, every created row
\* has rollover_amount 0, also when an earlier month has rows and when the
\* template has a category the previous month lacked.
C6_NoPreviousNoRollover == [][C6_Step]_vars

\* the same, for the creations whose scan matched no row of another template
C6_WithinScope == [][(CreatingStep /\ ScanWithinScope) => C6_Step]_vars

-----------------------------------------------------------------------------
(* The previous month *)

YearOf(monthStr) == Number(SubSeq(monthStr, 1, 4))

MonthOf(monthStr) == Number(SubSeq(monthStr, 6, 7))

\* the calendar month before YYYY-MM, as YYYY-MM
CalendarPrevious(monthStr) ==
  IF MonthOf(monthStr) > 1
  THEN MonthString(YearOf(monthStr), MonthOf(monthStr) - 1)
  ELSE MonthString(YearOf(monthStr) - 1, 12)

\* C7: for every month string YYYY-MM with MM in 01..12 getPreviousMonth
\* returns the calendar month before it as YYYY-MM, the month zero-padded:
\* MM-1 of the same year for MM > 01, December of YYYY-1 for MM = 01.
C7_PreviousMonth ==
  last.op = "getPreviousMonth" => last.body = CalendarPrevious(last.month)

\* the same, for the month strings whose previous month is in a year of
\* four digits without a leading zero
C7_FourDigitYears ==
  (last.op = "getPreviousMonth" /\ YearOf(CalendarPrevious(last.month)) >= 1000)
    => last.body = CalendarPrevious(last.month)

C7_JanuaryReached ==
  /\ last.op = "getPreviousMonth"
  /\ last.month = Jan2024
  /\ last.body = Dec2023

-----------------------------------------------------------------------------
(* Template lookup at creation *)

\* this step serves a GET /budgets or GET /budget-analysis that passed the
\* parameter check
GetOrCreateStep ==
  /\ last'.op \in {"getBudgets", "getAnalysis"}
  /\ last'.status # 400

\* the scan for the requested month matched the rows of the scope and no other
ExistingWithinScope ==
  ScanEnvelopes(env, last'.template, last'.month, last'.userId)
    = ScopeRows(env, last'.userId, last'.template, last'.month)

\* the request fails with TemplateNotFound and nothing is written
FailsTemplateNotFound ==
  /\ last'.status = 500
  /\ last'.error = "TemplateNotFound"
  /\ last'.writes = 0
  /\ tpl' = tpl
  /\ env' = env

C8_Step ==
  ( /\ GetOrCreateStep
    /\ ScopeRows(env, last'.userId, last'.template, last'.month) = {}
    /\ QueryTemplate(tpl, last'.template, last'.userId) = {}
    /\ ~(last'.template = DefaultName /\ TemplateNamesOf(tpl, last'.userId) = {}) )
  => FailsTemplateNotFound

\* C8: a request for a scope without envelope rows and a template without
\* category entries fails with TemplateNotFound and writes nothing, unless
\* the template is "Default" and the owner has no template at all.
C8_TemplateNotFound == [][C8_Step]_vars

\* the same, for the requests whose scan matched no row of another template
C8_WithinScope == [][(GetOrCreateStep /\ ExistingWithinScope) => C8_Step]_vars

\* the six template rows of the preset, and the six envelope rows made of them
PresetTemplateRows(userId) ==
  {TemplateItem(userId, DefaultName, c) : c \in getDefaultTemplateCategories}

ProvisionsDefault ==
  /\ last'.status = 200
  /\ tpl' = PresetTemplateRows(last'.userId)
  /\ Cardinality(tpl' \ tpl) = 6
  /\ {TemplateEntry(r) : r \in CreatedRows} = getDefaultTemplateCategories
  /\ Cardinality(CreatedRows) = 6
  /\ Cardinality(env' \ env) = 6
  /\ last'.op = "getBudgets" =>
        /\ last'.body = {BudgetView(r) : r \in CreatedRows}
        /\ Cardinality(last'.body) = 6

C9_Step ==
  ( /\ GetOrCreateStep
    /\ last'.template = DefaultName
    /\ TemplateNamesOf(tpl, last'.userId) = {} )
  => ProvisionsDefault

\* C9 as stated: a "Default" request of an owner with zero templates creates
\* the six preset template rows, then creates and returns six envelope rows
\* with the preset's category, budget_amount and rollover_enabled.
C9_ZeroTemplates == [][C9_Step]_vars

C9_BrandNewStep ==
  ( /\ GetOrCreateStep
    /\ last'.template = DefaultName
    /\ TemplateNamesOf(tpl, last'.userId) = {}
    /\ OwnerRows(env, last'.userId) = {} )
  => ProvisionsDefault

\* C9: a "Default" request of a brand-new owner, one with zero templates
\* and no envelope row under any template, creates the six preset template
\* rows, then creates and returns six envelope rows with the preset's
\* category, budget_amount and rollover_enabled.
C9_BrandNewOwner == [][C9_BrandNewStep]_vars

C9_Witness ==
  /\ last.op = "getBudgets"
  /\ last.template = DefaultName
  /\ last.status = 200
  /\ last.writes = 2
  /\ tpl = PresetTemplateRows(last.userId)
  /\ Cardinality(last.body) = 6

-----------------------------------------------------------------------------
(* Deletion *)

KeysOf(items) == {<<r.PK, r.SK>> : r \in items}

C10_NoKeyLost ==
  /\ KeysOf(tpl) \subseteq KeysOf(tpl')
  /\ KeysOf(env) \subseteq KeysOf(env')

\* C10 as stated: in every step of the budgets handler the set of template
\* keys and the set of envelope keys never shrink.
C10_NeverShrinks == [][C10_NoKeyLost]_vars

C10_DeleteStep ==
  /\ KeysOf(env) \subseteq KeysOf(env')
  /\ last'.op # "deleteTemplate" => KeysOf(tpl) \subseteq KeysOf(tpl')
  /\ last'.op = "deleteTemplate" =>
        /\ KeysOf(tpl) \ KeysOf(tpl')
              = KeysOf(QueryTemplate(tpl, last'.template, last'.userId))
        /\ tpl' \subseteq tpl

\* C10: no step removes an envelope key; template keys are removed only by
\* DELETE /budget-templates/{name}, which removes the keys of the named
\* template of the owner, all of them and no other.
C10_OnlyTemplateDelete == [][C10_DeleteStep]_vars

C10_Witness ==
  /\ last.op = "deleteTemplate"
  /\ last.writes = 6
  /\ QueryTemplate(tpl, last.template, last.userId) = {}
  /\ ScopeRows(env, last.userId, last.template, Dec2023) # {}


-----------------------------------------------------------------------------
(* The batch of one scope *)

\* the categories of the owner's template
TemplateCategoryNames(userId, template) ==
  {i.category : i \in QueryTemplate(tpl, template, userId)}

\* the categories of the rows stored for one scope
StoredCategoryNames(userId, template, month) ==
  {r.category : r \in ScopeRows(env, userId, template, month)}

\* C11: in every state, also between two chunk writes and after a chunk
\* write that failed, the rows stored for a scope are none, or one row for
\* each category of the scope's template: never a strict non-empty subset.
C11_AtomicBatch ==
  \A u \in Users : \A s \in FaultScopes :
    \/ StoredCategoryNames(u, s[1], s[2]) = {}
    \/ StoredCategoryNames(u, s[1], s[2]) = TemplateCategoryNames(u, s[1])


-----------------------------------------------------------------------------
(* Rows once created *)

\* the attributes of a row that nothing changes
SameCreation(r, q) ==
  /\ q.PK = r.PK
  /\ q.SK = r.SK
  /\ q.id = r.id
  /\ q.category = r.category
  /\ q.rollover_enabled = r.rollover_enabled
  /\ q.rollover_amount = r.rollover_amount
  /\ q.created_at = r.created_at

C12_Step ==
  \A r \in env :
    r.month # NoMonth =>
      \E q \in env' :
        /\ SameCreation(r, q)
        /\ q.budget_amount # r.budget_amount => last'.op = "updateBudgets"

\* C12: no request changes the id, category, rollover_enabled,
\* rollover_amount or created_at of a stored envelope row, whether it edits,
\* deletes or re-creates the template, adds a transaction, or asks for the
\* budgets or the analysis again; only PUT /budgets changes budget_amount.
C12_Immutable == [][C12_Step]_vars

\* the template was created again with another amount after the rows were
\* created, a transaction was added, and a later GET /budgets returned the
\* rows as they were created
C12_Witness ==
  /\ last.op = "getBudgets"
  /\ last.status = 200
  /\ last.writes = 0
  /\ last.template = CopyName
  /\ txn # {}
  /\ \E r \in ScopeRows(env, last.userId, CopyName, Dec2023) :
       \E i \in QueryTemplate(tpl, CopyName, last.userId) :
         /\ i.category = r.category
         /\ i.budget_amount # r.budget_amount
         /\ \E b \in last.body : b.id = r.id /\ b.budget_amount = r.budget_amount


-----------------------------------------------------------------------------
(* Retry after a failed store command *)

\* this step answers a GET /budgets that follows a GET /budgets of the same
\* owner, template and month that failed on a store command
RetryStep ==
  /\ last.op = "getBudgets"
  /\ last.status = 500
  /\ last.error = "StorageError"
  /\ last'.op = "getBudgets"
  /\ last' # last
  /\ last'.userId = last.userId
  /\ last'.template = last.template
  /\ last'.month = last.month

\* the retry returned the rows that were stored, and wrote nothing
ReturnedPresent ==
  /\ last'.writes = 0
  /\ env' = env
  /\ ScanEnvelopes(env, last'.template, last'.month, last'.userId) # {}
  /\ last'.body =
       {BudgetView(i) : i \in ScanEnvelopes(env, last'.template, last'.month, last'.userId)}

\* the retry created one row for each category of the template, and
\* returned them
CreatedFullSet ==
  /\ last'.writes > 0
  /\ {r.category : r \in CreatedRows} =
       {i.category : i \in QueryTemplate(tpl', last'.template, last'.userId)}
  /\ last'.body = {BudgetView(i) : i \in CreatedRows}

C13_Step ==
  RetryStep =>
    /\ NoDuplicateRows(OwnerRows(env', last'.userId))
    /\ last'.status = 200 => (ReturnedPresent \/ CreatedFullSet)

-----------------------------------------------------------------------------
(* After a chunk write has failed *)

\* the rows stored for the scope are some, not all, of the template's
\* categories, and no request is writing the rest
PartialRows(userId, template, month) ==
  /\ StoredCategoryNames(userId, template, month) # {}
  /\ StoredCategoryNames(userId, template, month) # TemplateCategoryNames(userId, template)
  /\ StoredCategoryNames(userId, template, month) \subseteq TemplateCategoryNames(userId, template)
  /\ \A p \in Procs :
       ~ ( /\ inflight[p].pc = "write"
           /\ inflight[p].userId = userId
           /\ inflight[p].template = template
           /\ inflight[p].month = month )

\* what holds of a step from a state where the scope has partial rows
C14_ScopeStep(u, template, month) ==
  /\ ScopeRows(env', u, template, month) = ScopeRows(env, u, template, month)
  /\ PartialRows(u, template, month)'
  /\ ( /\ last'.op = "getBudgets"
       /\ last' # last
       /\ last'.status = 200
       /\ last'.userId = u /\ last'.template = template /\ last'.month = month )
     => /\ last'.writes = 0
        /\ last'.body = {BudgetView(i) : i \in ScopeRows(env, u, template, month)}

C14_Step ==
  \A u \in Users : \A s \in FaultScopes :
    PartialRows(u, s[1], s[2]) => C14_ScopeStep(u, s[1], s[2])

\* C14: once a chunk write has failed and left rows for some of the
\* template's categories, the rows of the scope stay as they are: every
\* later GET /budgets of the scope that is answered returns exactly those
\* rows and writes nothing, and the missing categories are never created.
C14_PartialStays == [][C14_Step]_vars

\* the same, of the scopes whose existence scan matches rows of the scope only
C14_WithinScope ==
  [][\A u \in Users : \A s \in FaultScopes :
       ( /\ PartialRows(u, s[1], s[2])
         /\ ScanEnvelopes(env, s[1], s[2], u) = ScopeRows(env, u, s[1], s[2]) )
       => C14_ScopeStep(u, s[1], s[2])]_vars


-----------------------------------------------------------------------------
(* Failures of store commands *)

\* this step answers 200 to a GET /budgets
AnswersBudgets ==
  /\ last' # last
  /\ last'.op = "getBudgets"
  /\ last'.status = 200

C15_Step ==
  \A p \in Procs :
    inflight[p].failed => (env' = env /\ ~AnswersBudgets)

\* C15: a GET /budgets one of whose store commands has failed, the scan of
\* the previous month's rows and the scan of the previous month's spending
\* included, writes no envelope row afterwards and is not answered 200.
C15_FailureSurfaces == [][C15_Step]_vars


-----------------------------------------------------------------------------
(* The analysis of budgets against spending *)

\* the function has been applied
Analysed == last.op = "calculateBudgetAnalysis"

\* map[key] or 0
SpendingOf(actualSpending, category) ==
  IF category \in DOMAIN actualSpending THEN actualSpending[category] ELSE 0

\* p hundredths is actual / budgeted * 100 rounded to two decimals, a half
\* rounded up
IsRoundedPercentage(p, actual, budgeted) ==
  /\ 2 * (p * budgeted - actual * 10000) <= budgeted
  /\ 2 * (p * budgeted - actual * 10000) > 0 - budgeted

\* r is x rounded to two decimals, a half rounded up
IsRoundedCurrency(r, x) ==
  /\ r % 10 = 0
  /\ 2 * (r - x) <= 10
  /\ 2 * (r - x) > 0 - 10

\* the entry e is the result of the budget row b
IsResultOf(e, b, actualSpending) ==
  /\ e.source = b.id
  /\ e.category = b.category
  /\ e.budgeted = b.budget_amount + b.rollover_amount
  /\ e.actual = SpendingOf(actualSpending, b.category)
  /\ e.remaining = e.budgeted - e.actual
  /\ e.has_budget
  /\ ~e.unbudgeted_spending
  /\ e.budgeted > 0 => IsRoundedPercentage(e.percentage, e.actual, e.budgeted)
  /\ e.budgeted = 0 => e.percentage = 0

\* C16: for every budget row passed in there is one entry with budgeted =
\* budget_amount + rollover_amount, actual = the spending of the category
\* or 0, remaining = budgeted - actual, has_budget true, unbudgeted_spending
\* false, and percentage = actual / budgeted * 100 rounded to two decimals
\* when budgeted > 0 and 0 when budgeted = 0.
C16_BudgetedEntries ==
  Analysed =>
    \A b \in last.body.budgets :
      /\ \E e \in last.body.analysis.categoryAnalysis :
           IsResultOf(e, b, last.body.actualSpending)
      /\ Cardinality({e \in last.body.analysis.categoryAnalysis : e.source = b.id}) = 1

\* 7 spent of 800 budgeted is 0.875 percent and shows as 0.88; 300 spent
\* in a category with nothing budgeted shows as 0
C16_Witness ==
  /\ Analysed
  /\ \E e \in last.body.analysis.categoryAnalysis :
       e.has_budget /\ e.budgeted = 800 /\ e.actual = 7 /\ e.percentage = 88
  /\ \E e \in last.body.analysis.categoryAnalysis :
       e.has_budget /\ e.budgeted = 0 /\ e.actual = 300 /\ e.percentage = 0


\* the categories of the budget rows passed in
BudgetedCategories == {b.category : b \in last.body.budgets}

\* the categories with spending and no budget row
UnbudgetedCategories == (DOMAIN last.body.actualSpending) \ BudgetedCategories

\* the entry e is the result of the unbudgeted category c
IsUnbudgetedResultOf(e, c, actualSpending) ==
  /\ e.category = c
  /\ e.budgeted = 0
  /\ e.actual = actualSpending[c]
  /\ e.remaining = 0 - actualSpending[c]
  /\ e.percentage = 0
  /\ ~e.has_budget
  /\ e.unbudgeted_spending

RECURSIVE SpendingSum(_, _)
SpendingSum(actualSpending, categories) ==
  IF categories = {} THEN 0
  ELSE LET c == CHOOSE x \in categories : TRUE
       IN actualSpending[c] + SpendingSum(actualSpending, categories \ {c})

RECURSIVE BudgetedSum(_)
BudgetedSum(budgets) ==
  IF budgets = {} THEN 0
  ELSE LET b == CHOOSE x \in budgets : TRUE
       IN b.budget_amount + b.rollover_amount + BudgetedSum(budgets \ {b})

RECURSIVE BudgetedActualSum(_, _)
BudgetedActualSum(budgets, actualSpending) ==
  IF budgets = {} THEN 0
  ELSE LET b == CHOOSE x \in budgets : TRUE
       IN SpendingOf(actualSpending, b.category)
            + BudgetedActualSum(budgets \ {b}, actualSpending)

\* C17: every category with spending and no budget row has exactly one
\* entry, with budgeted 0, actual the spending, remaining -actual,
\* percentage 0, has_budget false and unbudgeted_spending true; its actual
\* counts in totalActual and nothing of it in totalBudgeted; and no category
\* that has a budget row has such an entry.
C17_UnbudgetedEntries ==
  Analysed =>
    LET analysis == last.body.analysis
        actualSpending == last.body.actualSpending
    IN /\ \A c \in UnbudgetedCategories :
            /\ Cardinality({e \in analysis.categoryAnalysis : e.category = c}) = 1
            /\ \A e \in analysis.categoryAnalysis :
                 e.category = c => IsUnbudgetedResultOf(e, c, actualSpending)
       /\ \A e \in analysis.categoryAnalysis :
            e.unbudgeted_spending => e.category \in UnbudgetedCategories
       /\ IsRoundedCurrency(analysis.summary.totalActual,
                            BudgetedActualSum(last.body.budgets, actualSpending)
                              + SpendingSum(actualSpending, UnbudgetedCategories))
       /\ IsRoundedCurrency(analysis.summary.totalBudgeted,
                            BudgetedSum(last.body.budgets))

\* Travel has spending and no budget row while Food has both
C17_Witness ==
  /\ Analysed
  /\ "Travel" \in UnbudgetedCategories
  /\ "Food" \in BudgetedCategories \cap DOMAIN last.body.actualSpending
  /\ \E e \in last.body.analysis.categoryAnalysis :
       e.category = "Travel" /\ e.unbudgeted_spending /\ e.remaining = 0 - 250
  /\ last.body.analysis.summary.totalActual >= last.body.actualSpending["Food"] + 250

\* the sums of the entries of the category list
EntrySum(entries, field) == SumOver(entries, field)

\* C18: the summary agrees with the category list: totalBudgeted is the sum
\* of budgeted over the entries with a budget, totalActual the sum of
\* actual over all entries, totalRemaining = totalBudgeted - totalActual,
\* overBudgetCategories the number of entries with a budget whose actual
\* exceeds budgeted, and budgetUtilization = totalActual / totalBudgeted *
\* 100 rounded to two decimals when totalBudgeted > 0, else 0.
C18_SummaryConsistent ==
  Analysed =>
    LET entries == last.body.analysis.categoryAnalysis
        summary == last.body.analysis.summary
    IN /\ summary.totalBudgeted = EntrySum({e \in entries : e.has_budget}, "budgeted")
       /\ summary.totalActual = EntrySum(entries, "actual")
       /\ summary.totalRemaining = summary.totalBudgeted - summary.totalActual
       /\ summary.overBudgetCategories =
            Cardinality({e \in entries : e.has_budget /\ e.actual > e.budgeted})
       /\ summary.totalBudgeted > 0 =>
            IsRoundedPercentage(summary.budgetUtilization, summary.totalActual,
                                summary.totalBudgeted)
       /\ summary.totalBudgeted = 0 => summary.budgetUtilization = 0

\* the entries of the example: 300 spent of 500 and 250 spent of 200
ExampleEntries ==
  {[budgeted |-> 500, actual |-> 300], [budgeted |-> 200, actual |-> 250]}

\* C18, with the rounding of the sums: totalBudgeted, totalActual and
\* totalRemaining are the sum of budgeted over the entries with a budget,
\* the sum of actual over all entries, and the difference of the two sums,
\* each rounded to two decimals; overBudgetCategories is the number of
\* entries with a budget whose actual exceeds budgeted; budgetUtilization
\* is the ratio of the two sums times 100 rounded to two decimals, or 0
\* when nothing is budgeted; the example gives 700, 550, 150, 1 and 78.57.
C18_SummaryRounded ==
  Analysed =>
    LET entries == last.body.analysis.categoryAnalysis
        summary == last.body.analysis.summary
        sumBudgeted == EntrySum({e \in entries : e.has_budget}, "budgeted")
        sumActual == EntrySum(entries, "actual")
    IN /\ IsRoundedCurrency(summary.totalBudgeted, sumBudgeted)
       /\ IsRoundedCurrency(summary.totalActual, sumActual)
       /\ IsRoundedCurrency(summary.totalRemaining, sumBudgeted - sumActual)
       /\ summary.overBudgetCategories =
            Cardinality({e \in entries : e.has_budget /\ e.actual > e.budgeted})
       /\ sumBudgeted > 0 =>
            IsRoundedPercentage(summary.budgetUtilization, sumActual, sumBudgeted)
       /\ sumBudgeted = 0 => summary.budgetUtilization = 0
       /\ {[budgeted |-> e.budgeted, actual |-> e.actual] : e \in entries} = ExampleEntries
            => summary = [ totalBudgeted |-> 700, totalActual |-> 550,
                           totalRemaining |-> 150, overBudgetCategories |-> 1,
                           budgetUtilization |-> 7857 ]

\* half a hundredth spent of a budget of 500: the sums round to 500 and
\* 10, and the difference 495 rounds to 500
C18_Witness ==
  /\ Analysed
  /\ {[budgeted |-> e.budgeted, actual |-> e.actual] :
        e \in last.body.analysis.categoryAnalysis}
       = {[budgeted |-> 500, actual |-> 5]}
  /\ last.body.analysis.summary =
       [ totalBudgeted |-> 500, totalActual |-> 10, totalRemaining |-> 500,
         overBudgetCategories |-> 0, budgetUtilization |-> 100 ]


-----------------------------------------------------------------------------
(* What the analysis leaves in the store *)

\* this step answers GET /budget-analysis
AnalysisStep == last'.op = "getAnalysis" /\ last'.status # 400

C19_Step ==
  AnalysisStep =>
    /\ txn' = txn
    /\ \E o \in getOrCreateEnvelopeBudgets(tpl, env, txn, clock, last'.template,
                                           last'.month, last'.userId) :
         tpl' = o.tpl /\ env' = o.env
    /\ ScopeRows(env, last'.userId, last'.template, last'.month) # {}
         => (env' = env /\ tpl' = tpl /\ last'.writes = 0)
    /\ \A r \in env' \ env :
         /\ r.user_id = last'.userId
         /\ r.template_name = last'.template
         /\ r.month = last'.month
         /\ r \in BuildEnvelopes(last'.userId, last'.template, last'.month,
                                 {TemplateEntry(i) :
                                    i \in QueryTemplate(tpl', last'.template, last'.userId)},
                                 [c \in {r.category} |-> r.rollover_amount], clock)
    /\ tpl' \ tpl \subseteq PresetTemplateRows(last'.userId)

\* C19: GET /budget-analysis changes the store only as the creation of the
\* scope's envelope rows changes it: it writes no transaction, it leaves the
\* store as it was when rows of the scope exist, every item it adds is an
\* envelope row of the scope built from the template or a preset template
\* row, and nothing of the analysis is stored.
C19_AnalysisFrame == [][C19_Step]_vars

\* the analysis of a scope whose rows exist has been answered
C19_Witness ==
  /\ last.op = "getAnalysis"
  /\ last.status = 200
  /\ last.writes = 0
  /\ last.body.categoryAnalysis # {}
  /\ {e.category : e \in last.body.categoryAnalysis}
       = {r.category : r \in ScopeRows(env, last.userId, last.template, last.month)}


-----------------------------------------------------------------------------
(* Spending by category *)

\* the owner's transactions of the month that are expenses
ExpensesOf(userId, month, types) ==
  {x \in txn : /\ x.PK = TransactionPK(userId)
               /\ x.type \in types
               /\ SubSeq(x.date, 1, 7) = month}

\* the map is the sum by category of the transactions
IsSpendingMap(map, transactions) ==
  /\ DOMAIN map = {x.category : x \in transactions}
  /\ \A c \in DOMAIN map : map[c] = SumAmounts({x \in transactions : x.category = c})

\* the types of an expense: the one POST /transactions stores for the
\* client and the one createRecurringTransaction accepts
ExpenseTypes == {"Expense", "expense"}

\* C20: the map returned for an owner and a month has, for each category,
\* the sum of the amounts of exactly the owner's expense transactions dated
\* in that month; income, other months and other owners add nothing, and a
\* category without an expense in the month is absent.
C20_ActualSpending ==
  last.op = "getActualSpending" =>
    IsSpendingMap(last.body, ExpensesOf(last.userId, last.month, ExpenseTypes))

\* the same, counting as expenses the transactions of type 'Expense' only
C20_CapitalisedOnly ==
  last.op = "getActualSpending" =>
    IsSpendingMap(last.body, ExpensesOf(last.userId, last.month, {"Expense"}))


-----------------------------------------------------------------------------
(* Validation of the requests *)

\* a YYYY-MM string with a month of 01 to 12
IsMonthString(m) ==
  /\ Len(m) = 7
  /\ m[5] = "-"
  /\ \A i \in {1, 2, 3, 4, 6, 7} : \E d \in 1..10 : Digits[d] = m[i]
  /\ Number(SubSeq(m, 6, 7)) \in 1..12

\* the path parameters are not a template and a month
InvalidScope(template, month) == template = NoName \/ ~IsMonthString(month)

\* an entry of the update has no category
LacksCategory(budgets) == \E b \in budgets : b.category = Undefined

\* the request is answered 400 and the store is as it was
Rejected ==
  /\ last'.status = 400
  /\ tpl' = tpl
  /\ env' = env
  /\ txn' = txn

C21_Step ==
  /\ \A u \in Users : \A s \in ValidationScopes :
       (InvalidScope(s[1], s[2]) /\ handleBudgets(u, s[1], s[2])) => Rejected
  /\ \A u \in Users : \A s \in ValidationScopes :
       (InvalidScope(s[1], s[2]) /\ handleBudgetAnalysis(u, s[1], s[2])) => Rejected
  /\ \A u \in Users : \A s \in ValidationUpdateScopes : \A b \in ValidationUpdates :
       ( /\ InvalidScope(s[1], s[2]) \/ LacksCategory(b)
         /\ updateEnvelopeBudget(u, s[1], s[2], b) ) => Rejected

\* C21: a GET /budgets, GET /budget-analysis or PUT /budgets request whose
\* month is missing or is not a YYYY-MM string with a month of 01 to 12,
\* whose template is missing, or whose update entries lack a category is
\* answered with a validation error and writes nothing.
C21_Rejected == [][C21_Step]_vars

\* the same, of the requests with an empty template or an empty month
C21_EmptyRejected ==
  [][\A u \in Users : \A s \in ValidationScopes :
       ( /\ s[1] = NoName \/ s[2] = NoMonth
         /\ handleBudgets(u, s[1], s[2]) \/ handleBudgetAnalysis(u, s[1], s[2]) )
       => Rejected]_vars


-----------------------------------------------------------------------------
(* Independence of the scopes *)

\* the rows a GET /budgets answers with belong to the template and the
\* month of the request
ReturnedInScope ==
  \A b \in last.body : b.template_name = last.template /\ b.month = last.month

\* the rows of the request's owner, template and month decide whether rows
\* are created: with none of them stored the rows are created from the
\* template, with some stored nothing is written
ExistenceByScope ==
  LET own == ScopeRows(env, last'.userId, last'.template, last'.month)
  IN /\ own # {} => env' = env
     /\ (own = {} /\ last'.status = 200) => CreatedRows # {}

\* C22: every row a GET /budgets returns has the template name and the
\* month of the request, and no row of another template, a template whose
\* name begins with the request's template name included, is read as an
\* existing row of the scope.
C22_ScopesIndependent ==
  [][(last'.op = "getBudgets" /\ last'.status = 200 /\ last' # last)
       => (ReturnedInScope' /\ ExistenceByScope)]_vars

\* the same, of the requests whose scan matches the rows of the scope only
C22_WithinScope ==
  [][( /\ last'.op = "getBudgets" /\ last'.status = 200 /\ last' # last
       /\ ScanEnvelopes(env, last'.template, last'.month, last'.userId)
            = ScopeRows(env, last'.userId, last'.template, last'.month) )
       => (ReturnedInScope' /\ ExistenceByScope)]_vars


-----------------------------------------------------------------------------
(* Frame of the budget update *)

\* every stored row is still stored, with no attribute but the budget_amount
\* changed, and that one only under the partition key and the month of the
\* request
OnlyAmountsChanged ==
  \A r \in env : \E n \in env' :
    /\ n.PK = r.PK /\ n.SK = r.SK
    /\ [n EXCEPT !.budget_amount = r.budget_amount] = r
    /\ n.budget_amount # r.budget_amount =>
         ( /\ r.PK = EnvelopePK(last'.userId, last'.template)
           /\ BeginsWith(r.SK, last'.month \o <<"#">>) )

C24_Step ==
  last'.op = "updateBudgets" =>
    ( /\ KeysOf(env') = KeysOf(env)
      /\ OnlyAmountsChanged
      /\ tpl' = tpl /\ txn' = txn )

\* C24: PUT /budgets changes only the budget_amount of the stored rows that
\* its entries name: every other attribute, every other row and the set of
\* keys of the store stay as they were, so an entry for a category without
\* a row creates no item.
C24_UpdateFrame == [][C24_Step]_vars

\* the same without the set of keys: the rows that were stored keep every
\* attribute but the budget_amount
C24_StoredRowsFrame ==
  [][last'.op = "updateBudgets" => (OnlyAmountsChanged /\ tpl' = tpl /\ txn' = txn)]_vars


-----------------------------------------------------------------------------
(* An analysis during an update *)

\* the update in flight for the scope of the analysis just answered
UpdatesOf(u, template, month) ==
  {p \in UpdateProcs : /\ inflight[p].pc = "update"
                       /\ inflight[p].userId = u
                       /\ inflight[p].template = template
                       /\ inflight[p].month = month}

\* the budget_amount that the analysis shows for a category
ShownAmounts(body, category) ==
  {e.budgeted - e.rollover_amount :
     e \in {x \in body.categoryAnalysis : x.category = category /\ x.has_budget}}

\* the budget_amount stored for a category of a scope
StoredAmounts(items, u, template, month, category) ==
  {r.budget_amount : r \in {x \in ScopeRows(items, u, template, month) :
                              x.category = category}}

\* a command of the update takes effect: the item of its key has the new
\* amount and no item of another key has changed
CommandStep(p) ==
  LET t == inflight[p]
      sent == t.pending \ inflight'[p].pending
  IN (t.pc = "update" /\ inflight'[p].pc = "update" /\ sent # {}) =>
       /\ Cardinality(sent) = 1
       /\ \A b \in sent :
            /\ \E r \in env' : /\ r.PK = EnvelopePK(t.userId, t.template)
                                /\ r.SK = EnvelopeSK(t.month, b.category)
                                /\ r.budget_amount = b.budget_amount
            /\ \A r \in env' \ env : r.SK = EnvelopeSK(t.month, b.category)

\* an analysis answered while an update of its scope is in flight shows
\* the amounts that are stored at that moment
AnalysisDuringUpdate ==
  (last'.op = "getAnalysis" /\ last'.status = 200 /\ inflight' = inflight) =>
    \A p \in UpdatesOf(last'.userId, last'.template, last'.month) :
      \A b \in inflight[p].budgets :
        ShownAmounts(last'.body, b.category)
          = StoredAmounts(env', last'.userId, last'.template, last'.month, b.category)

C23_Step == AnalysisDuringUpdate /\ \A p \in UpdateProcs : CommandStep(p)

\* C23: the commands of an update take effect one entry at a time and an
\* analysis answered in between shows the amounts stored at that moment, so
\* an analysis concurrent with an update of two categories can show the new
\* budget_amount of one category and the old one of the other.
C23_NoOrdering == [][C23_Step]_vars

\* an analysis that shows the new amount of Food and the preset amount of
\* Bills, answered with the command for Bills still to take effect
C23_Witness ==
  /\ last.op = "getAnalysis" /\ last.status = 200
  /\ \E p \in UpdatesOf(last.userId, last.template, last.month) :
       /\ Cardinality(inflight[p].budgets) >= 2
       /\ \E b \in inflight[p].budgets \ inflight[p].pending :
            ShownAmounts(last.body, b.category) = {b.budget_amount}
       /\ \E b \in inflight[p].pending :
            /\ ShownAmounts(last.body, b.category) # {}
            /\ b.budget_amount \notin ShownAmounts(last.body, b.category)


-----------------------------------------------------------------------------
(* Rollover of the rows with the rollover switched off *)

\* C25: in every reachable state every stored envelope row with
\* rollover_enabled = false has rollover_amount = 0.
C25_DisabledHoldsZero ==
  \A r \in env : ~r.rollover_enabled => r.rollover_amount = 0

\* a row with a rollover_amount has, in the month before, a row of its
\* category with the rollover switched on among the rows that the scan of
\* the previous month matches
C25_RolloverHasSource ==
  [][\A r \in env' \ env :
       r.rollover_amount > 0 =>
         \E b \in ScanEnvelopes(env, r.template_name, getPreviousMonth(r.month),
                                 r.user_id) :
           b.category = r.category /\ b.rollover_enabled]_vars


-----------------------------------------------------------------------------
(* Expenses written by the executor *)

\* the expenses of a month and a category that executions have written
ExecutedExpenses(userId, month, category) ==
  {x \in txn : /\ x.PK = TransactionPK(userId)
               /\ x.recurring_transaction_id # NoId
               /\ x.type = "expense"
               /\ SubSeq(x.date, 1, 7) = month
               /\ x.category = category}

C26_Step ==
  /\ (AnalysisStep /\ last'.status = 200) =>
       \A x \in txn :
         x \in ExecutedExpenses(last'.userId, last'.month, x.category) =>
           \E e \in last'.body.categoryAnalysis :
             /\ e.category = x.category
             /\ e.actual >= SumAmounts(ExecutedExpenses(last'.userId, last'.month,
                                                        x.category))
  /\ CreatingStep =>
       \A b \in PreviousRows : \A n \in CreatedRows :
         ( /\ b.rollover_enabled
           /\ n.category = b.category
           /\ ExecutedExpenses(last'.userId, getPreviousMonth(last'.month),
                               b.category) # {} )
         => n.rollover_amount < b.budget_amount

\* C26: an expense that executeRecurringTransaction has written for an
\* owner in a month is part of the actual of its category in the analysis
\* of that month and lowers the rollover computed for the month after.
C26_ExecutedCounted == [][C26_Step]_vars


-----------------------------------------------------------------------------
(* Executions and the execution_count *)

\* the transactions that executions of a recurring item have written
GeneratedBy(items, r) ==
  {x \in items : x.PK = TransactionPK(r.user_id) /\ x.recurring_transaction_id = r.id}

CountsMatch == \A r \in rec : r.execution_count = Cardinality(GeneratedBy(txn, r))

\* an execute request answered 200 has added one transaction of the item
\* and one to its execution_count; one answered otherwise has changed
\* neither store
ExecuteStep ==
  (last'.op = "execute" /\ last' # last) =>
    IF last'.status = 200
    THEN \E r \in rec : \E n \in rec' :
           /\ r.id = last'.body.id /\ n.id = r.id
           /\ n.execution_count = r.execution_count + 1
           /\ Cardinality(GeneratedBy(txn', r)) = Cardinality(GeneratedBy(txn, r)) + 1
           /\ Cardinality(txn') = Cardinality(txn) + 1
    ELSE rec' = rec /\ txn' = txn

\* C27: in every reachable state the execution_count of every recurring
\* transaction is the number of stored transactions generated from it, and
\* every execute request either adds one transaction and one to the count
\* or, answered with an error, changes neither.
C27_CountMatches == [][ExecuteStep /\ CountsMatch']_vars

\* the same, of the requests that are not answered 500
C27_WithoutFailure ==
  [][(last'.status # 500 /\ CountsMatch) => (ExecuteStep /\ CountsMatch')]_vars


-----------------------------------------------------------------------------
(* Concurrent execute-due requests *)

\* the item that a step of the loop of request p has dealt with
LoopItems(p) ==
  IF inflight[p].pc = "due" /\ inflight'[p].pc = "due"
  THEN inflight[p].due \ inflight'[p].due
  ELSE {}

IsDue(id, today) ==
  \E r \in rec : r.id = id /\ r.is_active /\ DateLE(r.next_execution, today)

\* a step of the loop writes for an item only if the item is due at that
\* moment: an item that another request has executed since the scan is
\* passed over
C28_Step ==
  \A p \in Procs : \A id \in LoopItems(p) :
    (txn' # txn \/ rec' # rec) => IsDue(id, DateOf(clock))

\* C28: of two concurrent execute-due requests of an owner at most one
\* executes a due recurring transaction: no transaction is generated and
\* no execution_count is raised for an item that is no longer due.
C28_AtMostOnce == [][C28_Step]_vars


-----------------------------------------------------------------------------
(* The answer of an execute-due request *)

NextExecutionOf(items, id) == {r.next_execution : r \in {x \in items : x.id = id}}

ExecutionCountOf(items, id) == {r.execution_count : r \in {x \in items : x.id = id}}

\* the request is answered: the items it reports are the ones it has
\* executed, and each of them is next due after the day of the request
ReportedAreLater ==
  \A p \in Procs :
    (inflight[p].pc = "due" /\ inflight'[p].pc = "idle") =>
      /\ last'.op = "executeDue"
      /\ last'.body.executed_transactions = inflight[p].executed
      /\ last'.body.executed_count = Cardinality(inflight[p].executed)
      /\ \A id \in inflight[p].executed :
           \A d \in NextExecutionOf(rec', id) : ~DateLE(d, last'.body.today)

\* a request that follows on the same day finds none of the reported items
NotFoundAgain ==
  \A p \in Procs :
    ( /\ inflight[p].pc = "idle" /\ inflight'[p].pc = "due"
      /\ last.op = "executeDue"
      /\ last.body.today = inflight'[p].today )
    => inflight'[p].due \cap last.body.executed_transactions = {}

\* a step of the loop takes one item off the list, whatever became of it,
\* and counts it as executed exactly when its transaction is stored and
\* its execution_count is raised
LoopGoesOn ==
  \A p \in Procs : \A id \in LoopItems(p) :
    LET stored == \E x \in txn' \ txn : x.recurring_transaction_id = id
        raised == \A c \in ExecutionCountOf(rec, id) :
                    ExecutionCountOf(rec', id) = {c + 1}
    IN /\ inflight'[p].due = inflight[p].due \ {id}
       /\ inflight'[p].executed \ {id} = inflight[p].executed \ {id}
       /\ id \in inflight'[p].executed
            <=> (id \in inflight[p].executed \/ (stored /\ raised))

\* C29: every recurring transaction that an execute-due request reports as
\* executed is next due strictly after the day of the request, so that a
\* request repeated on that day executes none of them again; an item whose
\* execution fails does not stop the loop, and executed_count is the number
\* of items executed with success.
C29_ExecutedNotRepeated == [][ReportedAreLater /\ NotFoundAgain /\ LoopGoesOn]_vars

\* an answer that reports one item, while the execution of another item has
\* stored its transaction and failed to raise its execution_count
C29_Witness ==
  /\ last.op = "executeDue"
  /\ last.body.executed_count = 1
  /\ \E q \in rec :
       /\ q.id \notin last.body.executed_transactions
       /\ q.execution_count = 0
       /\ GeneratedBy(txn, q) # {}
  /\ \A id \in last.body.executed_transactions :
       \E r \in rec : r.id = id /\ ~DateLE(r.next_execution, last.body.today)


-----------------------------------------------------------------------------
(* Updates of entities that do not exist *)

UpdateOps == {"updateRecurring", "updateAlert", "markAlertAsRead", "dismissAlert"}

\* the request just answered names a key under which nothing is stored
UnknownEntity ==
  IF last'.op = "updateRecurring"
  THEN \A r \in rec : r.PK # RecurringPK(last'.userId, last'.body.id)
  ELSE \A r \in alert : r.PK # AlertPK(last'.userId, last'.body.id)

C30_Step ==
  (last'.op \in UpdateOps /\ UnknownEntity) =>
    (last'.status = 404 /\ rec' = rec /\ alert' = alert)

\* C30: an update of a recurring transaction or of an alert (update, mark
\* as read, dismiss) whose id names no stored item is answered 404 and
\* leaves the store as it was: no item is created under that key.
C30_UnknownIsNotFound == [][C30_Step]_vars

\* the same of the deletion of an alert
C30_DeleteUnknown ==
  [][(last'.op = "deleteAlert"
        /\ \A r \in alert : r.PK # AlertPK(last'.userId, last'.body.id))
       => (last'.status = 404 /\ rec' = rec /\ alert' = alert)]_vars

====
